---- MODULE Spec2Model ----
(***************************************************************************)
(* Model of the planning engine of uni_meal_planner (logic/planning.py)    *)
(* and of the swap handler of app.py.                                      *)
(*                                                                         *)
(* Time.  A datetime is an integer number of quarter minutes (15 seconds)   *)
(* counted from midnight of the planned day; values below 0 or above       *)
(* 24 hours are datetimes of the previous or the next day.  The datetimes   *)
(* given to the engine are whole minutes, as the time inputs of the         *)
(* application are; the engine halves a timedelta at most twice, so every   *)
(* datetime it computes is a whole number of quarter minutes.               *)
(*                                                                         *)
(* Numbers.  A float is an IEEE 754 binary64 number [neg, man, exp] of     *)
(* value man * 2^exp, man being a natural number of 53 bits written as a   *)
(* sequence of 14-bit limbs, least significant first; +, -, * and / round  *)
(* to the nearest float, halves to even, as the hardware does.  A value    *)
(* returned by round(x, 1) is kept as the integer 10 * x (tenths); a float *)
(* whose value is always a whole number is kept as that integer.           *)
(*                                                                         *)
(* None.  An optional value is <<>> (None) or <<v>>.                       *)
(*                                                                         *)
(* Strings.  A string is a TLA+ string, except the role of a template      *)
(* item, the one string the engine converts (str.lower): it is the         *)
(* sequence of its characters, <<"c", "a", "r", "b">> for "carb".          *)
(***************************************************************************)
EXTENDS Integers, Sequences, FiniteSets, TLC

VARIABLES
    pc,              \* position of the modelled caller
    wake, bed,       \* generate_slots arguments; in Spec the "Wake" and "Bed"
                     \* inputs, times of day
    sessions,
    day_type,
    target_kcal,
    slots,           \* value returned by generate_slots
    foods,           \* the food catalog
    constraints,     \* UserConstraints
    safe_foods,      \* value returned by filter_foods_by_constraints
    templates,       \* the template catalog
    pick_purpose,    \* pick_template_for_purpose arguments
    used_templates,
    force_new,
    exclude_name,
    picked,          \* value returned by pick_template_for_purpose
    profile,         \* weight_kg, height_cm, age, sex, activity_level, goal
    force_swap,      \* st.session_state.force_swap; <<>> stands for None
    generated,       \* st.session_state.generated: the meals of the last plan
    meals,           \* generate_daily_plan: the meals composed so far
    idx,             \* generate_daily_plan: position of the loop over slots
    used_today,      \* generate_daily_plan: food names used in this run
    draws,           \* history: the random.choice calls of this run
    baseline,        \* history: meals, draws and inputs of the last run without swap
    edits,           \* history: script runs that changed an input so far
    generate_now,    \* st.session_state.generate_now
    session_widgets, \* the keyed widgets of the edit loop as the last script
                     \* run left them: the default and the value of each
    date,            \* the "Date" input: the number of the planned day
    targets,         \* <<value>> returned by estimate_daily_targets; <<>> before
    total_water_ml,  \* generate_hydration_reminders arguments
    interval_minutes,
    reminders        \* value returned by generate_hydration_reminders

slotVars == <<wake, bed, sessions, day_type, target_kcal, slots>>
filterVars == <<foods, constraints, safe_foods>>
pickVars == <<templates, pick_purpose, used_templates, force_new, exclude_name, picked>>
waterVars == <<targets, total_water_ml, interval_minutes, reminders>>
planVars == <<profile, force_swap, generated, meals, idx, used_today, draws, baseline,
              edits, generate_now, session_widgets, date, waterVars>>
vars == <<pc, slotVars, filterVars, pickVars, planVars>>

(***************************************************************************)
(* Bounds of the model                                                     *)
(***************************************************************************)
MaxSessions == 2
MaxFoods == 3
MaxTemplates == 3
MaxEdits == 1

(***************************************************************************)
(* Generic helpers                                                         *)
(***************************************************************************)
Abs(x) == IF x < 0 THEN -x ELSE x

SeqsUpTo(S, n) == UNION {[1..k -> S] : k \in 0..n}

Range(f) == {f[i] : i \in DOMAIN f}

Max(a, b) == IF a >= b THEN a ELSE b

\* dict.get(key, default)
Get(d, key, default) == IF key \in DOMAIN d THEN d[key] ELSE default

\* dict.get(key): <<>> stands for None
GetOpt(d, key) == IF key \in DOMAIN d THEN <<d[key]>> ELSE <<>>

\* the truth value of an optional string: None and "" are false
Truthy(o) == o # <<>> /\ o[1] # ""

(***************************************************************************)
(* Natural numbers of any size: little-endian sequences of 14-bit limbs,   *)
(* without leading zero limbs (<<>> is 0).                                  *)
(***************************************************************************)
BB == 16384

Pow2(n) == 2 ^ n

Limb(a, i) == IF i \in DOMAIN a THEN a[i] ELSE 0

RECURSIVE BTrim(_)
BTrim(a) ==
    IF a # <<>> /\ a[Len(a)] = 0 THEN BTrim(SubSeq(a, 1, Len(a) - 1)) ELSE a

\* a natural number below 2^31 as limbs
BFromNat(n) == BTrim(<<n % BB, (n \div BB) % BB, n \div (BB * BB)>>)

\* limbs as a natural number (below 2^31)
RECURSIVE BToNat(_)
BToNat(a) == IF a = <<>> THEN 0 ELSE a[1] + BB * BToNat(Tail(a))

RECURSIVE BAddFrom(_, _, _, _)
BAddFrom(a, b, i, c) ==
    IF i > Len(a) /\ i > Len(b) THEN (IF c = 0 THEN <<>> ELSE <<c>>)
    ELSE LET s == Limb(a, i) + Limb(b, i) + c
         IN  <<s % BB>> \o BAddFrom(a, b, i + 1, s \div BB)

BAdd(a, b) == BAddFrom(a, b, 1, 0)

\* a - b for a >= b
RECURSIVE BSubFrom(_, _, _, _)
BSubFrom(a, b, i, c) ==
    IF i > Len(a) THEN <<>>
    ELSE LET s == a[i] - Limb(b, i) - c
         IN  IF s < 0 THEN <<s + BB>> \o BSubFrom(a, b, i + 1, 1)
             ELSE <<s>> \o BSubFrom(a, b, i + 1, 0)

BSub(a, b) == BTrim(BSubFrom(a, b, 1, 0))

\* -1, 0 or 1 as a < b, a = b, a > b: from limb i downwards
RECURSIVE BCmpFrom(_, _, _)
BCmpFrom(a, b, i) ==
    IF i = 0 THEN 0
    ELSE IF Limb(a, i) < Limb(b, i) THEN -1
    ELSE IF Limb(a, i) > Limb(b, i) THEN 1
    ELSE BCmpFrom(a, b, i - 1)

BCmp(a, b) == BCmpFrom(a, b, Max(Len(a), Len(b)))

\* a * k for 0 <= k <= 2^16
RECURSIVE BMulSmallFrom(_, _, _, _)
BMulSmallFrom(a, k, i, c) ==
    IF i > Len(a) THEN (IF c = 0 THEN <<>> ELSE BFromNat(c))
    ELSE LET s == a[i] * k + c
         IN  <<s % BB>> \o BMulSmallFrom(a, k, i + 1, s \div BB)

BMulSmall(a, k) == BTrim(BMulSmallFrom(a, k, 1, 0))

Zeros(n) == [i \in 1..n |-> 0]

RECURSIVE BMulFrom(_, _, _)
BMulFrom(a, b, j) ==
    IF j > Len(b) THEN <<>>
    ELSE BAdd(Zeros(j - 1) \o BMulSmall(a, b[j]), BMulFrom(a, b, j + 1))

BMul(a, b) == BTrim(BMulFrom(a, b, 1))

\* a * 2^n
BShl(a, n) ==
    IF a = <<>> THEN <<>> ELSE Zeros(n \div 14) \o BMulSmall(a, Pow2(n % 14))

\* quotient and remainder of a by d, 0 < d <= 2^16
RECURSIVE BDivSmallFrom(_, _, _, _)
BDivSmallFrom(a, d, i, r) ==
    IF i = 0 THEN [q |-> <<>>, r |-> r]
    ELSE LET cur == r * BB + a[i]
             rest == BDivSmallFrom(a, d, i - 1, cur % d)
         IN  [q |-> Append(rest.q, cur \div d), r |-> rest.r]

BDivSmall(a, d) ==
    LET Trimmed(x) == [q |-> BTrim(x.q), r |-> x.r]
    IN  Trimmed(BDivSmallFrom(a, d, Len(a), 0))

\* floor(a / 2^n)
BShr(a, n) ==
    IF n \div 14 >= Len(a) THEN <<>>
    ELSE BDivSmall(SubSeq(a, n \div 14 + 1, Len(a)), Pow2(n % 14)).q

\* number of bits of a
BitLenNat(n) == CHOOSE k \in 0..15 : (k = 0 \/ Pow2(k - 1) <= n) /\ (k = 15 \/ n < Pow2(k))

BBitLen(a) == IF a = <<>> THEN 0 ELSE 14 * (Len(a) - 1) + BitLenNat(a[Len(a)])

\* bit i of a is set, bit 0 being the lowest
BBit(a, i) == (Limb(a, i \div 14 + 1) \div Pow2(i % 14)) % 2 = 1

\* some bit of a below bit i is set
BLow(a, i) ==
    \/ \E j \in 1..(i \div 14) : Limb(a, j) # 0
    \/ Limb(a, i \div 14 + 1) % Pow2(i % 14) # 0

\* a / 2^n rounded to the nearest natural number, halves to even; sticky
\* tells that the exact value is a little above a
BRoundShr(a, n, sticky) ==
    LET IncIf(q, up) == IF up THEN BAdd(q, <<1>>) ELSE q
    IN  IF n <= 0 THEN BShl(a, -n)
        ELSE IncIf(BShr(a, n),
                   BBit(a, n - 1) /\ (sticky \/ BLow(a, n - 1) \/ BBit(a, n)))

\* floor(r / y) for r < y * 2^14 and y of four limbs with y[4] >= 2^13: the
\* estimate qh from the leading limbs is at most 2 too large
BDigit(r, y) ==
    LET From(qh) ==
            IF BCmp(BMulSmall(y, qh), r) <= 0 THEN qh
            ELSE IF BCmp(BMulSmall(y, qh - 1), r) <= 0 THEN qh - 1
            ELSE qh - 2
    IN  From(BB - 1 - Max(0, BB - 1 - (Limb(r, 5) * BB + Limb(r, 4)) \div y[4]))

\* quotient and remainder of r * 2^(14 * k) by y, for r < y
RECURSIVE BDivLimbs(_, _, _)
BDivLimbs(r, y, k) ==
    LET Push(rest, d) == [q |-> Append(rest.q, d), r |-> rest.r]
        Digit(r1, d) == Push(BDivLimbs(BSub(r1, BMulSmall(y, d)), y, k - 1), d)
        Step(r1) == Digit(r1, BDigit(r1, y))
    IN  IF k = 0 THEN [q |-> <<>>, r |-> r]
        ELSE Step(IF r = <<>> THEN <<>> ELSE <<0>> \o r)

\* quotient and remainder of a * 2^56 by b, for a and b of 53 bits
BDiv56(a, b) ==
    LET Top(d, q0) == [q |-> BTrim(Append(d.q, q0)), r |-> d.r]
        Norm(x, y) ==
            Top(BDivLimbs(IF BCmp(x, y) >= 0 THEN BSub(x, y) ELSE x, y, 4),
                IF BCmp(x, y) >= 0 THEN 1 ELSE 0)
    IN  Norm(BMulSmall(a, 8), BMulSmall(b, 8))

(***************************************************************************)
(* IEEE 754 binary64 (the float of Python), without infinities, NaN and    *)
(* subnormal numbers: the value of [neg, man, exp] is man * 2^exp, negated *)
(* when neg; man is 0 (then exp is 0) or has exactly 53 bits.              *)
(***************************************************************************)
FZero == [neg |-> FALSE, man |-> <<>>, exp |-> 0]

FIsZero(x) == x.man = <<>>

\* the float nearest to man * 2^exp (a little above when sticky), halves to
\* even; a carry out of the rounding gives 2^53
FRoundTo(neg, man, exp, sticky) ==
    LET Norm(m, e) ==
            IF m[4] >= 2048 THEN [neg |-> neg, man |-> <<0, 0, 0, 1024>>, exp |-> e + 1]
            ELSE [neg |-> neg, man |-> m, exp |-> e]
        By(sh) == Norm(BRoundShr(man, sh, sticky), exp + sh)
    IN  IF man = <<>> THEN FZero ELSE By(BBitLen(man) - 53)

\* float(n) for an integer n, |n| < 2^31
FromInt(n) ==
    LET Scaled(a, sh) == [neg |-> n < 0, man |-> BShl(a, sh), exp |-> -sh]
        FromLimbs(a) == Scaled(a, 53 - BBitLen(a))
    IN  IF n = 0 THEN FZero ELSE FromLimbs(BFromNat(Abs(n)))

FNeg(x) == IF FIsZero(x) THEN x ELSE [x EXCEPT !.neg = ~x.neg]

\* -1, 0 or 1 as |x| < |y|, |x| = |y|, |x| > |y| (x, y not zero)
FCmpAbs(x, y) ==
    IF x.exp < y.exp THEN -1
    ELSE IF x.exp > y.exp THEN 1
    ELSE BCmp(x.man, y.man)

\* -1, 0 or 1 as x < y, x = y, x > y
FCmp(x, y) ==
    IF FIsZero(x) THEN (IF FIsZero(y) THEN 0 ELSE IF y.neg THEN 1 ELSE -1)
    ELSE IF FIsZero(y) THEN (IF x.neg THEN -1 ELSE 1)
    ELSE IF x.neg # y.neg THEN (IF x.neg THEN -1 ELSE 1)
    ELSE IF x.neg THEN -FCmpAbs(x, y) ELSE FCmpAbs(x, y)

FLess(x, y) == FCmp(x, y) < 0

FMax(x, y) == IF FLess(x, y) THEN y ELSE x

\* x * y
FMul(x, y) ==
    IF FIsZero(x) \/ FIsZero(y) THEN FZero
    ELSE FRoundTo(x.neg # y.neg, BMul(x.man, y.man), x.exp + y.exp, FALSE)

\* x + y; Ord adds big and small for |big| >= |small| > 0, bm being
\* big.man * 2^(big.exp - small.exp)
FAdd(x, y) ==
    LET Man(big, small, bm) ==
            FRoundTo(big.neg,
                     IF big.neg = small.neg THEN BAdd(bm, small.man)
                     ELSE BSub(bm, small.man),
                     small.exp, FALSE)
        Ord(big, small) ==
            IF big.exp - small.exp > 64 THEN big
            ELSE Man(big, small, BShl(big.man, big.exp - small.exp))
    IN  IF FIsZero(x) THEN y
        ELSE IF FIsZero(y) THEN x
        ELSE Ord(IF FCmpAbs(x, y) >= 0 THEN x ELSE y,
                 IF FCmpAbs(x, y) >= 0 THEN y ELSE x)

FSub(x, y) == FAdd(x, FNeg(y))

\* x / y for x # 0 and y.man = y.man[4] * 2^42: the quotient of
\* x.man * 2^14 by y.man[4], rounded
FDivSmall(x, y) ==
    LET Quot(d) == FRoundTo(x.neg # y.neg, d.q, x.exp - y.exp - 56, d.r # 0)
    IN  IF FIsZero(x) THEN FZero
        ELSE Quot(BDivSmall(<<0>> \o x.man, y.man[4]))

\* x / y for y # 0: the quotient of x.man * 2^56 by y.man, rounded
FDiv(x, y) ==
    LET Quot(d) == FRoundTo(x.neg # y.neg, d.q, x.exp - y.exp - 56, d.r # <<>>)
    IN  IF FIsZero(x) THEN FZero
        ELSE IF y.man[1] = 0 /\ y.man[2] = 0 /\ y.man[3] = 0 THEN FDivSmall(x, y)
        ELSE Quot(BDiv56(x.man, y.man))

\* sum(xs): 0 + xs[1] + xs[2] + ...
RECURSIVE FSumFrom(_, _)
FSumFrom(acc, xs) == IF xs = <<>> THEN acc ELSE FSumFrom(FAdd(acc, Head(xs)), Tail(xs))

FSum(xs) == FSumFrom(FZero, xs)

\* the decimal literal n / d, d a whole number below 2048
Dec(n, d) == FDivSmall(FromInt(n), FromInt(d))

\* round(x * k) for an integer result below 2^31, k = 1, 10: an integer
FRoundScaled(x, k) ==
    LET Signed(n) == IF x.neg THEN -n ELSE n
    IN  IF FIsZero(x) THEN 0
        ELSE Signed(BToNat(BRoundShr(BMulSmall(x.man, k), -x.exp, FALSE)))

\* round(x): an integer
FRound(x) == FRoundScaled(x, 1)

\* round(x, 1), in tenths
FRound1(x) == FRoundScaled(x, 10)

\* round(x, -1) / 10 for x >= 0: an integer.  From gives q + d.r / 10 rounded
\* to the nearest integer, halves to even; exact tells that nothing was cut
\* off below d.r
FRoundTens(x) ==
    LET From(d, q, exact) ==
            IF d.r < 5 THEN q
            ELSE IF d.r > 5 \/ ~exact THEN q + 1
            ELSE IF q % 2 = 0 THEN q ELSE q + 1
        Of(d, exact) == From(d, BToNat(d.q), exact)
        Top(top) == Of(BDivSmall(top, 10), x.exp >= 0 \/ ~BLow(x.man, -x.exp))
    IN  IF FIsZero(x) THEN 0
        ELSE Top(IF x.exp >= 0 THEN BShl(x.man, x.exp) ELSE BShr(x.man, -x.exp))

(***************************************************************************)
(* datetime / timedelta                                                    *)
(***************************************************************************)
\* timedelta(minutes=n), timedelta(hours=n)
minutes(n) == 4 * n

hours(n) == 240 * n

\* timedelta.total_seconds()
total_seconds(d) == 15 * d

\* datetime.isoformat(): the calendar fields of the datetime
isoformat(t) ==
    [date |-> t \div hours(24), hour |-> (t % hours(24)) \div hours(1),
     minute |-> (t % hours(1)) \div minutes(1), second |-> total_seconds(t % minutes(1))]

\* timedelta / 2, for a timedelta of a whole number of half minutes
HalfDelta(d) == d \div 2

(***************************************************************************)
(* TrainingSession, MealSlot                                               *)
(***************************************************************************)
TrainingSession(label, start, end, session_type, intensity) ==
    [label |-> label, start |-> start, end |-> end,
     session_type |-> session_type, intensity |-> intensity]

MealSlot(label, time, purpose, kcal) ==
    [label |-> label, time |-> time, purpose |-> purpose, kcal_target |-> kcal]

(***************************************************************************)
(* generate_slots                                                          *)
(***************************************************************************)
FuelTypes == {"tournament", "strength", "endurance", "mixed", "skill"}
FuelIntensities == {"moderate", "hard"}

fuel_sessions(ss) ==
    SelectSeq(ss, LAMBDA s : s.session_type \in FuelTypes
                             /\ s.intensity \in FuelIntensities)

RECURSIVE MaxEnd(_)
MaxEnd(ss) ==
    IF Len(ss) = 1 THEN ss[1].end
    ELSE LET m == MaxEnd(Tail(ss)) IN IF ss[1].end >= m THEN ss[1].end ELSE m

\* max((e.end for e in sessions), default=None); <<>> stands for None
last_intense_end(ss) == IF ss = <<>> THEN <<>> ELSE <<MaxEnd(ss)>>

breakfast_time(w) == w + hours(1)

dinner_time(b, ss) ==
    IF last_intense_end(ss) # <<>> THEN last_intense_end(ss)[1] + hours(1)
    ELSE b - hours(3)

lunch_time(w, b, ss) ==
    breakfast_time(w) + HalfDelta(dinner_time(b, ss) - breakfast_time(w))

ZeroKcal == FZero

MainMeals(w, b, ss) ==
    << MealSlot(<<"Breakfast">>, breakfast_time(w), "breakfast", ZeroKcal),
       MealSlot(<<"Dinner">>, dinner_time(b, ss), "dinner", ZeroKcal),
       MealSlot(<<"Lunch">>, lunch_time(w, b, ss), "lunch", ZeroKcal) >>

\* any(abs((s.time - t).total_seconds()) < 60 * 60 for s in slots)
too_close(sl, t) == \E i \in DOMAIN sl : total_seconds(Abs(sl[i].time - t)) < 60 * 60

\* one iteration of the pre-event loop
PreEventStepNoCheck(sl, e, w) ==
    LET proposed == e.start - (hours(1) + minutes(30))
    IN  IF proposed < w + minutes(30) THEN sl
        ELSE Append(sl, MealSlot(<<"Pre-", e.label, " snack">>, proposed,
                                 "pre-event", ZeroKcal))

PreEventStepBad(sl, e, w) ==
    LET proposed == e.start - (hours(1) + minutes(30))
        new_time == proposed - hours(1)
    IN  IF proposed < w + minutes(30) THEN sl
        ELSE IF ~too_close(sl, proposed)
             THEN Append(sl, MealSlot(<<"Pre-", e.label, " snack">>, proposed,
                                      "pre-event", ZeroKcal))
        ELSE IF new_time >= w + minutes(10)
             THEN Append(sl, MealSlot(<<"Pre-", e.label, " snack">>, new_time,
                                      "pre-event", ZeroKcal))
        ELSE sl

PreEventStep(sl, e, w) ==
    LET proposed == e.start - (hours(1) + minutes(30))
        new_time == proposed - hours(1)
    IN  IF proposed < w + minutes(30) THEN sl
        ELSE IF ~too_close(sl, proposed)
             THEN Append(sl, MealSlot(<<"Pre-", e.label, " snack">>, proposed,
                                      "pre-event", ZeroKcal))
        ELSE IF new_time >= w + minutes(10) /\ ~too_close(sl, new_time)
             THEN Append(sl, MealSlot(<<"Pre-", e.label, " snack">>, new_time,
                                      "pre-event", ZeroKcal))
        ELSE sl

RECURSIVE PreEventLoop(_, _, _)
PreEventLoop(sl, fuel, w) ==
    IF fuel = <<>> THEN sl
    ELSE PreEventLoop(PreEventStep(sl, Head(fuel), w), Tail(fuel), w)

\* one iteration of the post-workout loop
PostWorkoutStepBad(sl, e, b) ==
    LET proposed == e.end + minutes(30)
    IN  IF proposed > b - minutes(45) THEN sl
        ELSE Append(sl, MealSlot(<<"Post-", e.label, " recovery">>, proposed,
                                 "post-workout", ZeroKcal))

PostWorkoutStep(sl, e, b) ==
    LET proposed == e.end + minutes(30)
    IN  IF proposed > b - minutes(45) THEN sl
        ELSE IF too_close(sl, proposed) THEN sl
        ELSE Append(sl, MealSlot(<<"Post-", e.label, " recovery">>, proposed,
                                 "post-workout", ZeroKcal))

RECURSIVE PostWorkoutLoop(_, _, _)
PostWorkoutLoop(sl, fuel, b) ==
    IF fuel = <<>> THEN sl
    ELSE PostWorkoutLoop(PostWorkoutStep(sl, Head(fuel), b), Tail(fuel), b)

\* list.sort(key=lambda s: s.time): stable, ascending
RECURSIVE InsertByTime(_, _)
InsertByTime(sorted, x) ==
    IF sorted = <<>> THEN <<x>>
    ELSE IF x.time < Head(sorted).time THEN <<x>> \o sorted
    ELSE <<Head(sorted)>> \o InsertByTime(Tail(sorted), x)

SortByTimeBad(sl) == sl

RECURSIVE SortByTime(_)
SortByTime(sl) ==
    IF sl = <<>> THEN <<>>
    ELSE InsertByTime(SortByTime(SubSeq(sl, 1, Len(sl) - 1)), sl[Len(sl)])

\* gap_hours = (next - current).total_seconds() / 3600.0
gap_hours(cur, nxt) == FDiv(FromInt(total_seconds(nxt.time - cur.time)), FromInt(3600))

\* the gap snacks of an already sorted list, gaps of more than 4 hours
RECURSIVE gap_snacks(_, _)
gap_snacks(sl, i) ==
    IF i >= Len(sl) THEN <<>>
    ELSE LET cur == sl[i]
             nxt == sl[i + 1]
             rest == gap_snacks(sl, i + 1)
         IN  IF FLess(FromInt(4), gap_hours(cur, nxt))
             THEN <<MealSlot(<<"Snack">>, cur.time + HalfDelta(nxt.time - cur.time),
                             "snack", ZeroKcal)>> \o rest
             ELSE rest

\* placement part of generate_slots (lines 140-255)
PlaceSlots(w, b, ss) ==
    LET fuel == fuel_sessions(ss)
        s1 == MainMeals(w, b, ss)
        s2 == PreEventLoop(s1, fuel, w)
        s3 == PostWorkoutLoop(s2, fuel, b)
        s4 == SortByTime(s3)
    IN  SortByTime(s4 \o gap_snacks(s4, 1))

\* fractions.get(s.purpose, fractions["snack"]): the literal of the
\* table, percent being the table in hundredths
raw_fraction(dt, purpose) ==
  LET percent ==
    IF dt = "tournament" THEN
        CASE purpose = "breakfast" -> 25
          [] purpose = "lunch" -> 25
          [] purpose = "dinner" -> 25
          [] purpose = "pre-event" -> 12
          [] purpose = "post-workout" -> 10
          [] OTHER -> 6
    ELSE IF dt = "classes" THEN
        CASE purpose = "breakfast" -> 22
          [] purpose = "lunch" -> 30
          [] purpose = "dinner" -> 30
          [] purpose = "pre-event" -> 10
          [] purpose = "post-workout" -> 10
          [] OTHER -> 4
    ELSE
        CASE purpose = "breakfast" -> 25
          [] purpose = "lunch" -> 35
          [] purpose = "dinner" -> 30
          [] purpose = "pre-event" -> 5
          [] purpose = "post-workout" -> 0
          [] OTHER -> 5
  IN  Dec(percent, 100)

raw_fractions(sl, dt) == [i \in DOMAIN sl |-> raw_fraction(dt, sl[i].purpose)]

\* sum(raw_fractions) if raw_fractions else 1.0
sum_f(fr) == IF fr # <<>> THEN FSum(fr) ELSE FromInt(1)

\* scale = 1.0 / sum_f
scale(sumf) == FDiv(FromInt(1), sumf)

\* target_kcal * f * scale
ScaledKcalBad(target, f, sc) == FMul(FromInt(target), f)

ScaledKcal(target, f, sc) == FMul(FMul(FromInt(target), f), sc)

AssignKcal(sl, target, dt) ==
    LET Scaled(fr, sc) ==
            [i \in DOMAIN sl |->
                [sl[i] EXCEPT !.kcal_target = ScaledKcal(target, fr[i], sc)]]
        With(fr) == Scaled(fr, scale(sum_f(fr)))
    IN  With(raw_fractions(sl, dt))

generate_slots(w, b, ss, target, dt) == AssignKcal(PlaceSlots(w, b, ss), target, dt)

(***************************************************************************)
(* filter_foods_by_constraints                                             *)
(***************************************************************************)
UserConstraints(lactose_intolerant, disliked_foods, allergies) ==
    [lactose_intolerant |-> lactose_intolerant,
     disliked_foods |-> disliked_foods, allergies |-> allergies]

\* the body of the loop: TRUE when the food reaches safe_foods.append
KeepsFoodBad(f, c) ==
    LET disliked == Range(c.disliked_foods)
        allergies == Range(c.allergies)
    IN  IF c.lactose_intolerant /\ ~Get(f, "lactose_free", FALSE) THEN FALSE
        ELSE IF allergies \cap Range(Get(f, "allergens", <<>>)) # {} THEN FALSE
        ELSE IF GetOpt(f, "name") \in {<<n>> : n \in disliked} THEN FALSE
        ELSE TRUE

KeepsFood(f, c) ==
    LET disliked == Range(c.disliked_foods)
        allergies == Range(c.allergies)
    IN  IF c.lactose_intolerant /\ ~Get(f, "lactose_free", TRUE) THEN FALSE
        ELSE IF allergies \cap Range(Get(f, "allergens", <<>>)) # {} THEN FALSE
        ELSE IF GetOpt(f, "name") \in {<<n>> : n \in disliked} THEN FALSE
        ELSE TRUE

\* a filter that lets every food through
filter_foods_by_constraintsBad(fs, c) == fs

RECURSIVE filter_foods_by_constraints(_, _)
filter_foods_by_constraints(fs, c) ==
    IF fs = <<>> THEN <<>>
    ELSE IF KeepsFood(Head(fs), c)
         THEN <<Head(fs)>> \o filter_foods_by_constraints(Tail(fs), c)
         ELSE filter_foods_by_constraints(Tail(fs), c)

(***************************************************************************)
(* pick_template_for_purpose                                               *)
(***************************************************************************)
TemplateMatches(t, p) ==
    \/ GetOpt(t, "purpose") = <<p>>
    \/ ("purposes" \in DOMAIN t /\ p \in Range(t.purposes))

matching(ts, p) == SelectSeq(ts, LAMBDA t : TemplateMatches(t, p))

\* if exclude_name: ... else: ...
matching_excl(m, excl) ==
    IF Truthy(excl)
    THEN SelectSeq(m, LAMBDA t : GetOpt(t, "name") # excl)
    ELSE m

unusedBad(me, used) == me

unused(me, used) ==
    SelectSeq(me, LAMBDA t : GetOpt(t, "name") \notin {<<n>> : n \in used})

\* the pool handed to random.choice
pool(ts, p, used, force, excl) ==
    LET m == matching(ts, p)
        me == matching_excl(m, excl)
        un == unused(me, used)
    IN  IF force
        THEN (IF me # <<>> THEN me ELSE m)
        ELSE (IF un # <<>> THEN un ELSE me)

(***************************************************************************)
(* estimate_daily_targets: the calorie target                              *)
(***************************************************************************)
\* the MET table, in tenths
METBad(session_type, intensity) ==
    LET row(ty) ==
            CASE ty = "strength" -> [easy |-> 35, moderate |-> 50, hard |-> 60]
              [] ty = "endurance" -> [easy |-> 60, moderate |-> 80, hard |-> 100]
              [] ty = "skill" -> [easy |-> 30, moderate |-> 40, hard |-> 30]
              [] ty = "tournament" -> [easy |-> 90, moderate |-> 110, hard |-> 120]
              [] ty = "class" -> [easy |-> 15, moderate |-> 15, hard |-> 15]
              [] OTHER -> [easy |-> 50, moderate |-> 70, hard |-> 90]
    IN  Get(row(session_type), intensity, 60)

MET(session_type, intensity) ==
    LET row(ty) ==
            CASE ty = "strength" -> [easy |-> 35, moderate |-> 50, hard |-> 60]
              [] ty = "endurance" -> [easy |-> 60, moderate |-> 80, hard |-> 100]
              [] ty = "skill" -> [easy |-> 30, moderate |-> 40, hard |-> 50]
              [] ty = "tournament" -> [easy |-> 90, moderate |-> 110, hard |-> 120]
              [] ty = "class" -> [easy |-> 15, moderate |-> 15, hard |-> 15]
              [] OTHER -> [easy |-> 50, moderate |-> 70, hard |-> 90]
    IN  Get(row(session_type), intensity, 60)

\* 10 * weight_kg + 6.25 * height_cm - 5 * age + (5 if sex == "male" else -161)
bmr(pf) ==
    FAdd(FSub(FAdd(FMul(FromInt(10), FromInt(pf.weight_kg)),
                   FMul(Dec(625, 100), FromInt(pf.height_cm))),
              FromInt(5 * pf.age)),
         FromInt(IF pf.sex = "male" THEN 5 ELSE -161))

\* the activity factor: 1.2, 1.35, 1.5
af(activity_level) ==
    Dec(CASE activity_level = "low" -> 120
          [] activity_level = "normal" -> 135
          [] activity_level = "high" -> 150, 100)

\* max(0.0, (s.end - s.start).total_seconds() / 3600.0)
session_hours(s) ==
    FMax(FZero, FDiv(FromInt(total_seconds(s.end - s.start)), FromInt(3600)))

\* session_kcal after the loop of lines 63-66
session_kcal(ss, weight_kg) ==
    FSum([i \in DOMAIN ss |->
             FMul(FMul(Dec(MET(ss[i].session_type, ss[i].intensity), 10),
                       FromInt(weight_kg)),
                  session_hours(ss[i]))])

goal_adjBad(goal) ==
    CASE goal = "cut" -> -3000
      [] goal = "maintain" -> 0
      [] goal = "gain" -> 250

goal_adj(goal) ==
    CASE goal = "cut" -> -300
      [] goal = "maintain" -> 0
      [] goal = "gain" -> 250

\* round(total_kcal / 50) * 50 of base + session_kcal + goal_adj
rounded_kcal(pf, b, sk) ==
    FRound(FDiv(FAdd(FAdd(FMul(b, af(pf.activity_level)), sk),
                     FromInt(goal_adj(pf.goal))),
                FromInt(50))) * 50

total_kcal(pf, ss) == rounded_kcal(pf, bmr(pf), session_kcal(ss, pf.weight_kg))

(***************************************************************************)
(* estimate_daily_targets: the whole record.  Grams and kcal rounded with  *)
(* round(x, 1) are kept in tenths; millilitres are whole numbers.          *)
(***************************************************************************)
ActivityLevels == {"low", "normal", "high"}
Goals == {"cut", "maintain", "gain"}

\* sum(max(0.0, (s.end - s.start).total_seconds() / 3600.0) for s in sessions)
training_hours(ss) == FSum([i \in DOMAIN ss |-> session_hours(ss[i])])

hard_hours(ss) ==
    training_hours(SelectSeq(ss, LAMBDA s : s.intensity = "hard"
                                            /\ s.session_type # "class"))

protein_g(pf) ==
    FMul(Dec(IF pf.goal = "cut" THEN 21 ELSE 18, 10), FromInt(pf.weight_kg))

fat_g(pf) == FMul(Dec(8, 10), FromInt(pf.weight_kg))

\* max(0.0, total_kcal - protein_kcal - fat_kcal)
carbs_kcal(kcal, pg, fg) ==
    FMax(FZero, FSub(FSub(FromInt(kcal), FMul(pg, FromInt(4))), FMul(fg, FromInt(9))))

baseline_water_ml(pf) == FMul(FromInt(35), FromInt(pf.weight_kg))

\* training_water_ml after the bump for hard sessions
training_water_ml(ss) ==
    FAdd(FMul(FromInt(500), training_hours(ss)), FMul(FromInt(250), hard_hours(ss)))

\* int(round(baseline_water_ml + training_water_ml, -1))
total_water(bw, tw) == FRoundTens(FAdd(bw, tw)) * 10

\* KeyError of the two table lookups; the sex is never looked up, anything
\* but "male" takes the other branch of line 45
EstimateRaises(pf) ==
    \/ pf.activity_level \notin ActivityLevels
    \/ pf.goal \notin Goals

estimate_daily_targets(pf, ss) ==
    LET Result(b, sk, kcal, pg, fg, bw, tw) ==
            [raised |-> FALSE,
             kcal |-> kcal,
             protein_g |-> FRound1(pg),
             carbs_g |-> FRound1(FDiv(carbs_kcal(kcal, pg, fg), FromInt(4))),
             fat_g |-> FRound1(fg),
             session_kcal |-> FRound1(sk),
             bmr |-> FRound1(b),
             water_ml |-> total_water(bw, tw),
             baseline_water_ml |-> FRound(bw),
             training_water_ml |-> FRound(tw)]
        With(b, sk) ==
            Result(b, sk, rounded_kcal(pf, b, sk), protein_g(pf), fat_g(pf),
                   baseline_water_ml(pf), training_water_ml(ss))
    IN  IF EstimateRaises(pf) THEN [raised |-> TRUE]
        ELSE With(bmr(pf), session_kcal(ss, pf.weight_kg))

(***************************************************************************)
(* filter_foods_by_purpose                                                 *)
(***************************************************************************)
needed_tags(p) ==
    CASE p = "breakfast" -> {"breakfast"}
      [] p \in {"lunch", "dinner"} -> {"lunch", "dinner", "snack", "recovery"}
      [] p = "pre-event" -> {"pre-event", "easy_digest", "quick_sugar", "snack"}
      [] p = "post-workout" -> {"dinner", "recovery", "lunch", "snack"}
      [] OTHER -> {"pre-event", "post-workout", "quick_sugar", "snack"}

filter_foods_by_purpose(fs, p) ==
    LET result == SelectSeq(fs, LAMBDA f :
                      Range(Get(f, "tags", <<>>)) \cap needed_tags(p) # {})
    IN  IF result # <<>> THEN result ELSE fs

(***************************************************************************)
(* build_item_entry.  grams is a float; every returned number is in tenths *)
(* (round(x, 1)).                                                          *)
(***************************************************************************)
build_item_entry(food, grams) ==
    LET With(factor) ==
            [name |-> food.name,
             grams |-> FRound1(grams),
             kcal |-> FRound1(FMul(FromInt(food.kcal_per_100g), factor)),
             carbs |-> FRound1(FMul(FromInt(food.carbs_per_100g), factor)),
             protein |-> FRound1(FMul(FromInt(food.protein_per_100g), factor)),
             fat |-> FRound1(FMul(FromInt(food.fat_per_100g), factor))]
    IN  With(FDiv(grams, FromInt(100)))

\* role.lower(), role being a sequence of characters; the letters converted
\* are A to Z
lower(role) ==
    LET LowerCase ==
            [A |-> "a", B |-> "b", C |-> "c", D |-> "d", E |-> "e", F |-> "f",
             G |-> "g", H |-> "h", I |-> "i", J |-> "j", K |-> "k", L |-> "l",
             M |-> "m", N |-> "n", O |-> "o", P |-> "p", Q |-> "q", R |-> "r",
             S |-> "s", T |-> "t", U |-> "u", V |-> "v", W |-> "w", X |-> "x",
             Y |-> "y", Z |-> "z"]
    IN  [i \in DOMAIN role |->
            IF role[i] \in DOMAIN LowerCase THEN LowerCase[role[i]] ELSE role[i]]

default_grams_for_role(role) ==
    LET Grams(r) ==
            CASE r \in {<<"c", "a", "r", "b">>, <<"b", "a", "s", "e">>,
                        <<"g", "r", "a", "i", "n">>} -> 180
              [] r = <<"p", "r", "o", "t", "e", "i", "n">> -> 140
              [] r = <<"f", "a", "t">> -> 20
              [] r = <<"f", "r", "u", "i", "t">> -> 150
              [] r = <<"d", "a", "i", "r", "y">> -> 170
              [] r \in {<<"v", "e", "g">>,
                        <<"v", "e", "g", "e", "t", "a", "b", "l", "e">>} -> 150
              [] r = <<"d", "r", "i", "n", "k">> -> 500
              [] OTHER -> 120
    IN  Grams(lower(role))

\* sum(i[key] for i in items) of entries kept in tenths
SumOf(items, key) == FSum([i \in DOMAIN items |-> Dec(items[i][key], 10)])

\* totals of a list of item entries, in tenths
Totals(items) ==
    [kcal |-> FRound1(SumOf(items, "kcal")),
     carbs |-> FRound1(SumOf(items, "carbs")),
     protein |-> FRound1(SumOf(items, "protein")),
     fat |-> FRound1(SumOf(items, "fat"))]

(***************************************************************************)
(* plan_meal_for_slot: the template path                                   *)
(***************************************************************************)
\* foods_by_name.get(name): <<>> when absent, the last food of that name
\* otherwise
foods_by_name(safe, name) ==
    LET hits == {i \in DOMAIN safe : <<safe[i].name>> = name}
    IN  IF hits = {} THEN <<>>
        ELSE <<safe[CHOOSE i \in hits : \A j \in hits : j <= i]>>

\* the loop over template.get("items", []): the pairs (food, grams) up to
\* the first item whose food is absent, and the ok flag
RECURSIVE base_items(_, _)
base_items(its, safe) ==
    IF its = <<>> THEN [ok |-> TRUE, items |-> <<>>]
    ELSE LET it == Head(its)
             role == Get(it, "role", <<"c", "a", "r", "b">>)
             grams == Get(it, "grams", default_grams_for_role(role))
             food == foods_by_name(safe, GetOpt(it, "name"))
         IN  IF food = <<>> THEN [ok |-> FALSE, items |-> <<>>]
             ELSE LET rest == base_items(Tail(its), safe)
                  IN  [ok |-> rest.ok,
                       items |-> <<[food |-> food[1], grams |-> grams]>> \o rest.items]

\* max(20.0, round((grams * scale) / 10.0) * 10.0), scale = kcal_target / base_kcal
ScaledGrams(grams, kcal, base_kcal) ==
    Max(20, FRound(FDiv(FMul(FromInt(grams), FDiv(kcal, base_kcal)), FromInt(10))) * 10)

\* <<>> when the template cannot be used, else the composed meal
TemplateMeal(slot, safe, template) ==
    LET tname == Get(template, "name", "template")
        Meal(items) ==
            <<[items |-> items, totals |-> Totals(items),
               note |-> <<tname, " (template).">>, template |-> tname]>>
        Scaled(bi, base_kcal) ==
            IF FLess(FZero, base_kcal)
            THEN Meal([i \in DOMAIN bi |->
                          build_item_entry(bi[i].food,
                              FromInt(ScaledGrams(bi[i].grams, slot.kcal_target,
                                                  base_kcal)))])
            ELSE <<>>
        Based(bi) ==
            IF bi.ok /\ bi.items # <<>>
            THEN Scaled(bi.items,
                        SumOf([i \in DOMAIN bi.items |->
                                  build_item_entry(bi.items[i].food,
                                                   FromInt(bi.items[i].grams))],
                              "kcal"))
            ELSE <<>>
    IN  Based(base_items(Get(template, "items", <<>>), safe))

(***************************************************************************)
(* plan_meal_for_slot: the heuristic path                                  *)
(***************************************************************************)
\* sorted(fs, key=lambda f: f.get(key, 0), reverse=True): stable
RECURSIVE InsertDesc(_, _, _)
InsertDesc(sorted, x, key) ==
    IF sorted = <<>> THEN <<x>>
    ELSE IF Get(x, key, 0) > Get(Head(sorted), key, 0) THEN <<x>> \o sorted
    ELSE <<Head(sorted)>> \o InsertDesc(Tail(sorted), x, key)

RECURSIVE SortDesc(_, _)
SortDesc(fs, key) ==
    IF fs = <<>> THEN <<>>
    ELSE InsertDesc(SortDesc(SubSeq(fs, 1, Len(fs) - 1), key), fs[Len(fs)], key)

\* cands[:10]
Top10(cands) == SubSeq(cands, 1, IF Len(cands) < 10 THEN Len(cands) ELSE 10)

\* pick(cands): the first candidate not used today, else the first one
pick(cands, ud) ==
    LET fresh == {i \in DOMAIN cands : cands[i].name \notin ud}
    IN  IF fresh # {} THEN cands[CHOOSE i \in fresh : \A j \in fresh : i <= j]
        ELSE cands[1]

HeuristicNote(p) ==
    CASE p = "breakfast" -> "High-carb breakfast with some protein and fat to fuel the morning."
      [] p = "lunch" -> "Balanced lunch for sustained energy through the day."
      [] p = "dinner" -> "Evening meal with extra protein to support recovery."
      [] p = "pre-event" -> "Mostly fast-digesting carbs before your session to give quick energy."
      [] p = "post-workout" -> "Post-workout recovery: carbs to refill glycogen + protein to support muscle repair."
      [] OTHER -> "Quick snack to top up energy between meals."

\* K * share / food["kcal_per_100g"] * 100.0
ShareGrams(kcal, share, food) ==
    FMul(FDiv(FMul(kcal, share), FromInt(food.kcal_per_100g)), FromInt(100))

\* max(20.0, round(grams / 10.0) * 10.0)
RoundedGrams(g) == FromInt(Max(20, FRound(FDiv(g, FromInt(10))) * 10))

\* [raised, meal, used_today, used_templates]; raised stands for
\* ZeroDivisionError
HeuristicMeal(slot, purpose_foods, ud, ut) ==
    LET carb_base == pick(Top10(SortDesc(purpose_foods, "carbs_per_100g")), ud)
        ud1 == ud \cup {carb_base.name}
        protein_source == pick(Top10(SortDesc(purpose_foods, "protein_per_100g")), ud1)
        ud2 == ud1 \cup {protein_source.name}
        fat_source == pick(Top10(SortDesc(purpose_foods, "fat_per_100g")), ud2)
        ud3 == ud2 \cup {fat_source.name}
        K == slot.kcal_target
        light == slot.purpose \in {"pre-event", "snack", "post-workout"}
        second_food == IF slot.purpose \in {"pre-event", "post-workout"}
                       THEN protein_source ELSE fat_source
        divisors == IF light THEN {carb_base.kcal_per_100g, second_food.kcal_per_100g}
                    ELSE {carb_base.kcal_per_100g, protein_source.kcal_per_100g,
                          fat_source.kcal_per_100g}
        \* the (food, share in hundredths) pairs of the items list, in order
        portions ==
            IF light
            THEN <<[food |-> carb_base, share |-> 80]>>
                 \o (IF second_food.name # carb_base.name
                     THEN <<[food |-> second_food, share |-> 20]>> ELSE <<>>)
            ELSE <<[food |-> carb_base, share |-> 60]>>
                 \o (IF protein_source.name # carb_base.name
                     THEN <<[food |-> protein_source, share |-> 25]>> ELSE <<>>)
                 \o (IF fat_source.name # carb_base.name
                        /\ fat_source.name # protein_source.name
                     THEN <<[food |-> fat_source, share |-> 15]>> ELSE <<>>)
        \* the grams of one item: rounded on the light path only
        Grams(g) == IF light THEN RoundedGrams(g) ELSE g
        Meal(items) ==
            <<[items |-> items, totals |-> Totals(items),
               note |-> <<HeuristicNote(slot.purpose)>>]>>
        Items(ps) ==
            [i \in DOMAIN ps |->
                build_item_entry(ps[i].food,
                    Grams(ShareGrams(K, Dec(ps[i].share, 100), ps[i].food)))]
    IN  IF 0 \in divisors
        THEN [raised |-> TRUE, meal |-> <<>>, used_today |-> ud3,
              used_templates |-> ut]
        ELSE [raised |-> FALSE,
              meal |-> Meal(Items(portions)),
              used_today |-> ud3, used_templates |-> ut]

(***************************************************************************)
(* plan_meal_for_slot                                                      *)
(***************************************************************************)
NoFoodsMealBad ==
    [items |-> <<>>,
     totals |-> [kcal |-> 0, carbs |-> 0, protein |-> 0, fat |-> 0],
     note |-> <<"No foods available that match your constraints.">>,
     template |-> "template"]

NoFoodsMeal ==
    [items |-> <<>>,
     totals |-> [kcal |-> 0, carbs |-> 0, protein |-> 0, fat |-> 0],
     note |-> <<"No foods available that match your constraints.">>]

\* TRUE when the call reaches random.choice
Draws(slot, fs, c, ts) ==
    /\ filter_foods_by_constraints(fs, c) # <<>>
    /\ ts # <<>>
    /\ matching(ts, slot.purpose) # <<>>

\* the values random.choice can return, as indices into the pool; 0 stands
\* for "no choice made"
Choices(slot, fs, c, ts, ut, fnew, excl) ==
    IF Draws(slot, fs, c, ts) /\ pool(ts, slot.purpose, ut, fnew, excl) # <<>>
    THEN DOMAIN pool(ts, slot.purpose, ut, fnew, excl)
    ELSE {0}

\* the call with random.choice resolved to the k-th element of its pool;
\* raised stands for an exception leaving the function
plan_meal_for_slot(slot, fs, c, ud, ts, ut, fnew, excl, k) ==
    LET safe == filter_foods_by_constraints(fs, c)
        pl == pool(ts, slot.purpose, ut, fnew, excl)
        drawn == Draws(slot, fs, c, ts)
        Planned(tm) ==
            IF tm # <<>>
            THEN [raised |-> FALSE, meal |-> tm, used_today |-> ud,
                  used_templates |-> ut \cup {tm[1].template}]
            ELSE HeuristicMeal(slot, filter_foods_by_purpose(safe, slot.purpose), ud, ut)
    IN  IF safe = <<>>
        THEN [raised |-> FALSE, meal |-> <<NoFoodsMeal>>,
              used_today |-> ud, used_templates |-> ut]
        ELSE IF drawn /\ pl = <<>>
        THEN [raised |-> TRUE, meal |-> <<>>, used_today |-> ud, used_templates |-> ut]
        ELSE Planned(IF drawn THEN TemplateMeal(slot, safe, pl[k]) ELSE <<>>)

(***************************************************************************)
(* generate_hydration_reminders                                            *)
(***************************************************************************)
HydrationReminder(time, label, ml) == [time |-> time, label |-> label, ml |-> ml]

\* the while loop of lines 611-614 (interval > 0)
RECURSIVE base_reminders(_, _, _)
base_reminders(t, end, interval) ==
    IF t <= end
    THEN <<HydrationReminder(t, <<"Drink water">>, 0)>>
         \o base_reminders(t + minutes(interval), end, interval)
    ELSE <<>>

\* the loop over the sessions, lines 617-621
RECURSIVE session_reminders(_)
session_reminders(ss) ==
    IF ss = <<>> THEN <<>>
    ELSE LET e == Head(ss)
         IN  (IF e.session_type = "class" THEN <<>>
              ELSE <<HydrationReminder(e.start - minutes(20),
                                       <<"Hydrate before ", e.label>>, 0),
                     HydrationReminder(e.end + minutes(15),
                                       <<"Hydrate after ", e.label>>, 0)>>)
             \o session_reminders(Tail(ss))

\* one iteration of the de-duplication loop, lines 626-632
DedupeStepBad(deduped, r) ==
    IF deduped = <<>> THEN <<r>>
    ELSE IF total_seconds(r.time - deduped[Len(deduped)].time) < 10 * 60 THEN deduped
    ELSE Append(deduped, r)

DedupeStep(deduped, r) ==
    IF deduped = <<>> THEN <<r>>
    ELSE IF total_seconds(r.time - deduped[Len(deduped)].time) < 20 * 60 THEN deduped
    ELSE Append(deduped, r)

RECURSIVE Dedupe(_, _)
Dedupe(deduped, rs) ==
    IF rs = <<>> THEN deduped ELSE Dedupe(DedupeStep(deduped, Head(rs)), Tail(rs))

\* max(100, int(round(total_water_ml / len(deduped), -1)))
reminder_ml(total, n) == Max(100, FRoundTens(FDiv(FromInt(total), FromInt(n))) * 10)

generate_hydration_reminders(w, b, ss, total, interval) ==
    LET start == w + minutes(30)
        end == b - minutes(45)
        merged == base_reminders(start, end, interval) \o session_reminders(ss)
        deduped == Dedupe(<<>>, SortByTime(merged))
        ml == reminder_ml(total, Len(deduped))
    IN  IF end <= start THEN <<>>
        ELSE [i \in DOMAIN deduped |->
                 HydrationReminder(deduped[i].time, deduped[i].label, ml)]

(***************************************************************************)
(* Idle values of the variables a specification does not use               *)
(***************************************************************************)
IdleSlots ==
    /\ wake = 0
    /\ bed = 0
    /\ sessions = <<>>
    /\ day_type = ""
    /\ target_kcal = 0
    /\ slots = <<>>

IdleFilter ==
    /\ foods = <<>>
    /\ constraints = <<>>
    /\ safe_foods = <<>>

IdlePlan ==
    /\ profile = <<>>
    /\ force_swap = <<>>
    /\ generated = <<>>
    /\ meals = <<>>
    /\ idx = 0
    /\ used_today = {}
    /\ draws = <<>>
    /\ baseline = <<>>
    /\ edits = 0
    /\ generate_now = FALSE
    /\ session_widgets = <<>>
    /\ date = 0
    /\ targets = <<>>
    /\ total_water_ml = 0
    /\ interval_minutes = 0
    /\ reminders = <<>>

IdlePick ==
    /\ templates = <<>>
    /\ pick_purpose = ""
    /\ used_templates = {}
    /\ force_new = FALSE
    /\ exclude_name = <<>>
    /\ picked = <<>>

(***************************************************************************)
(* Specification SpecSlots: generate_slots applied to bounded inputs       *)
(***************************************************************************)
WakeTimes == {hours(7), hours(6) + minutes(45)}
BedTimes == {hours(23)}
DayTypes == {"tournament", "classes", "rest"}
KcalTargets == {2350}

\* fuel sessions before wake, through the day (whole hours and odd minutes)
\* and after bed; sessions that are not fuel sessions
SessionPool ==
    {TrainingSession("Practice", hours(5), hours(6), "skill", "hard"),
     TrainingSession("Practice", hours(10), hours(11), "skill", "hard"),
     TrainingSession("Practice", hours(12), hours(13), "skill", "hard"),
     TrainingSession("Practice", hours(12) + minutes(15), hours(13) + minutes(23),
                     "skill", "hard"),
     TrainingSession("Practice", hours(18), hours(19), "skill", "hard"),
     TrainingSession("Practice", hours(18), hours(20), "skill", "hard"),
     TrainingSession("Practice", hours(24), hours(25), "skill", "hard"),
     TrainingSession("Lecture", hours(10), hours(12), "class", "hard"),
     TrainingSession("Gym", hours(18), hours(19), "strength", "easy")}

InitSlots ==
    /\ pc = "slots_input"
    /\ wake \in WakeTimes
    /\ bed \in BedTimes
    /\ sessions \in SeqsUpTo(SessionPool, MaxSessions)
    /\ day_type \in DayTypes
    /\ target_kcal \in KcalTargets
    /\ slots = <<>>
    /\ IdleFilter
    /\ IdlePick
    /\ IdlePlan

GenerateSlots ==
    /\ pc = "slots_input"
    /\ slots' = generate_slots(wake, bed, sessions, target_kcal, day_type)
    /\ pc' = "slots_done"
    /\ UNCHANGED <<wake, bed, sessions, day_type, target_kcal>>
    /\ UNCHANGED <<filterVars, pickVars, planVars>>

NextSlots == GenerateSlots

SpecSlots == InitSlots /\ [][NextSlots]_vars

(***************************************************************************)
(* Specification SpecFilter: filter_foods_by_constraints on bounded inputs *)
(***************************************************************************)
FilterFoodPool ==
    {[name |-> n, lactose_free |-> l, allergens |-> a] :
        n \in {"Milk", "Apple"}, l \in BOOLEAN, a \in {<<>>, <<"peanuts">>}}
    \cup {[name |-> n, allergens |-> a] :
        n \in {"Milk", "Apple"}, a \in {<<>>, <<"peanuts">>}}
    \cup {[name |-> "Rice", lactose_free |-> FALSE]}

ConstraintPool ==
    {UserConstraints(l, d, a) :
        l \in BOOLEAN,
        d \in {<<>>, <<"Apple">>, <<"Apple", "Rice">>},
        a \in {<<>>, <<"peanuts">>}}

InitFilter ==
    /\ pc = "filter_input"
    /\ foods \in SeqsUpTo(FilterFoodPool, MaxFoods)
    /\ constraints \in ConstraintPool
    /\ safe_foods = <<>>
    /\ IdleSlots
    /\ IdlePick
    /\ IdlePlan

FilterFoods ==
    /\ pc = "filter_input"
    /\ safe_foods' = filter_foods_by_constraints(foods, constraints)
    /\ pc' = "filter_done"
    /\ UNCHANGED <<foods, constraints, slotVars, pickVars, planVars>>

NextFilter == FilterFoods

SpecFilter == InitFilter /\ [][NextFilter]_vars

(***************************************************************************)
(* Specification SpecPick: pick_template_for_purpose on bounded inputs.    *)
(* random.choice is a nondeterministic choice among the pool; on an empty  *)
(* pool it raises IndexError.                                              *)
(***************************************************************************)
TemplateNames == {"A", "B"}
ExcludeNames == {"A", "B", ""}

PickTemplatePool ==
    {[name |-> n, purpose |-> p, items |-> <<>>] :
        n \in TemplateNames, p \in {"dinner", "breakfast"}}
    \cup {[name |-> n, purposes |-> <<"lunch", "dinner">>, items |-> <<>>] :
        n \in TemplateNames}
    \cup {[name |-> "", purpose |-> "dinner", items |-> <<>>]}

InitPick ==
    /\ pc = "pick_input"
    /\ templates \in SeqsUpTo(PickTemplatePool, MaxTemplates)
    /\ pick_purpose \in {"dinner", "lunch"}
    /\ used_templates \in SUBSET TemplateNames
    /\ force_new \in BOOLEAN
    /\ exclude_name \in {<<>>} \cup {<<n>> : n \in ExcludeNames}
    /\ picked = <<>>
    /\ IdleSlots
    /\ IdleFilter
    /\ IdlePlan

\* if not matching: return None
PickNone ==
    /\ pc = "pick_input"
    /\ matching(templates, pick_purpose) = <<>>
    /\ picked' = <<>>
    /\ pc' = "pick_done"
    /\ UNCHANGED <<templates, pick_purpose, used_templates, force_new, exclude_name>>
    /\ UNCHANGED <<slotVars, filterVars, planVars>>

\* return random.choice(pool)
PickChoice ==
    /\ pc = "pick_input"
    /\ matching(templates, pick_purpose) # <<>>
    /\ \E k \in DOMAIN pool(templates, pick_purpose, used_templates, force_new, exclude_name) :
          picked' = <<pool(templates, pick_purpose, used_templates, force_new, exclude_name)[k]>>
    /\ pc' = "pick_done"
    /\ UNCHANGED <<templates, pick_purpose, used_templates, force_new, exclude_name>>
    /\ UNCHANGED <<slotVars, filterVars, planVars>>

\* random.choice([]) raises IndexError
PickRaises ==
    /\ pc = "pick_input"
    /\ matching(templates, pick_purpose) # <<>>
    /\ pool(templates, pick_purpose, used_templates, force_new, exclude_name) = <<>>
    /\ picked' = <<>>
    /\ pc' = "pick_raised"
    /\ UNCHANGED <<templates, pick_purpose, used_templates, force_new, exclude_name>>
    /\ UNCHANGED <<slotVars, filterVars, planVars>>

NextPick == PickNone \/ PickChoice \/ PickRaises

SpecPick == InitPick /\ [][NextPick]_vars

(***************************************************************************)
(* Specification SpecTargets: estimate_daily_targets on bounded inputs,    *)
(* enumerated values outside their sets included.  Either a wide range of  *)
(* profiles with a short list of sessions, or a plain profile with one     *)
(* session of any type and intensity.                                      *)
(***************************************************************************)
TargetWeights == {1, 30}
TargetHeights == {50, 130}
TargetAges == {0, 80}
TargetSexes == {"female", "male"}
TargetActivityLevels == {"low", "high"}
TargetGoals == {"cut", "maintain", "gain"}

Profile(w, h, a, sx, al, g) ==
    [weight_kg |-> w, height_cm |-> h, age |-> a, sex |-> sx,
     activity_level |-> al, goal |-> g]

\* profiles with an enumerated value outside its set
OddProfiles ==
    {Profile(60, 160, 19, "other", "normal", "maintain"),
     Profile(60, 160, 19, "female", "extreme", "maintain"),
     Profile(60, 160, 19, "female", "normal", "bulk"),
     Profile(60, 160, 19, "other", "extreme", "bulk")}

\* profiles of the application's ranges whose total lies next to a multiple
\* of 25 kcal
EdgeProfiles ==
    {Profile(30, 204, 16, "male", "normal", "cut"),
     Profile(36, 180, 18, "male", "normal", "maintain")}

TargetProfiles ==
    {Profile(w, h, a, sx, al, g) :
        w \in TargetWeights, h \in TargetHeights, a \in TargetAges,
        sx \in TargetSexes, al \in TargetActivityLevels, g \in TargetGoals}
    \cup OddProfiles \cup EdgeProfiles

TargetSessionPool ==
    {TrainingSession("Lecture", hours(10), hours(11), "class", "hard"),
     TrainingSession("Gym", hours(14) + minutes(45), hours(15) + minutes(30),
                     "mixed", "easy")}

SingleSessionTypes ==
    {"class", "skill", "strength", "endurance", "mixed", "tournament", "yoga"}
SingleSessionIntensities == {"easy", "moderate", "hard", "max"}
SingleSessionDurations == {hours(1), minutes(90)}

SingleSessionPool ==
    {TrainingSession("Practice", hours(18), hours(18) + d, ty, it) :
        ty \in SingleSessionTypes, it \in SingleSessionIntensities,
        d \in SingleSessionDurations}

PlainProfiles ==
    {Profile(w, 160, 19, "female", "normal", "maintain") : w \in {1, 30, 61}}

InitTargets ==
    /\ pc = "targets_input"
    /\ \/ /\ profile \in TargetProfiles
          /\ sessions \in SeqsUpTo(TargetSessionPool, MaxSessions)
       \/ /\ profile \in PlainProfiles
          /\ sessions \in {<<s>> : s \in SingleSessionPool}
    /\ targets = <<>>
    /\ wake = 0
    /\ bed = 0
    /\ day_type = ""
    /\ target_kcal = 0
    /\ slots = <<>>
    /\ force_swap = <<>>
    /\ generated = <<>>
    /\ meals = <<>>
    /\ idx = 0
    /\ used_today = {}
    /\ draws = <<>>
    /\ baseline = <<>>
    /\ edits = 0
    /\ generate_now = FALSE
    /\ session_widgets = <<>>
    /\ date = 0
    /\ total_water_ml = 0
    /\ interval_minutes = 0
    /\ reminders = <<>>
    /\ IdleFilter
    /\ IdlePick

targetsIdle == <<wake, bed, day_type, target_kcal, slots, force_swap, generated,
                 meals, idx, used_today, draws, baseline, edits, generate_now,
                 session_widgets, date, total_water_ml, interval_minutes,
                 reminders,
                 filterVars, pickVars>>

\* the call returns its record
EstimateTargets ==
    /\ pc = "targets_input"
    /\ ~EstimateRaises(profile)
    /\ targets' = <<estimate_daily_targets(profile, sessions)>>
    /\ pc' = "targets_done"
    /\ UNCHANGED <<profile, sessions, targetsIdle>>

\* KeyError leaves the call
EstimateFails ==
    /\ pc = "targets_input"
    /\ EstimateRaises(profile)
    /\ pc' = "targets_raised"
    /\ UNCHANGED <<targets, profile, sessions, targetsIdle>>

NextTargets == EstimateTargets \/ EstimateFails

SpecTargets == InitTargets /\ [][NextTargets]_vars

(***************************************************************************)
(* Specification SpecHydration: generate_hydration_reminders on bounded    *)
(* inputs: waking windows of six hours and of less than 75 minutes,        *)
(* sessions inside, at the edge of and outside the window.                 *)
(***************************************************************************)
HydWakeTimes == {hours(7), hours(7) + minutes(30)}
HydBedTimes == {hours(8), hours(13)}
HydWaterTotals == {500, 2100, 2850}
HydIntervals == {15, 120}

HydSessionPool ==
    {TrainingSession("Lecture", hours(10), hours(11), "class", "hard"),
     TrainingSession("Practice", hours(10), hours(11), "skill", "hard"),
     TrainingSession("Gym", hours(9) + minutes(50), hours(11) + minutes(45),
                     "strength", "easy"),
     TrainingSession("Run", hours(5), hours(6) + minutes(30), "endurance", "moderate"),
     TrainingSession("Match", hours(18), hours(20), "tournament", "hard")}

InitHydration ==
    /\ pc = "hydration_input"
    /\ wake \in HydWakeTimes
    /\ bed \in HydBedTimes
    /\ sessions \in SeqsUpTo(HydSessionPool, MaxSessions)
    /\ total_water_ml \in HydWaterTotals
    /\ interval_minutes \in HydIntervals
    /\ reminders = <<>>
    /\ targets = <<>>
    /\ profile = <<>>
    /\ day_type = ""
    /\ target_kcal = 0
    /\ slots = <<>>
    /\ force_swap = <<>>
    /\ generated = <<>>
    /\ meals = <<>>
    /\ idx = 0
    /\ used_today = {}
    /\ draws = <<>>
    /\ baseline = <<>>
    /\ edits = 0
    /\ generate_now = FALSE
    /\ session_widgets = <<>>
    /\ date = 0
    /\ IdleFilter
    /\ IdlePick

GenerateReminders ==
    /\ pc = "hydration_input"
    /\ reminders' = generate_hydration_reminders(wake, bed, sessions,
                         total_water_ml, interval_minutes)
    /\ pc' = "hydration_done"
    /\ UNCHANGED <<wake, bed, sessions, total_water_ml, interval_minutes, targets,
                   profile, day_type, target_kcal, slots, force_swap, generated,
                   meals, idx, used_today, draws, baseline, edits, generate_now,
                   session_widgets, date, filterVars, pickVars>>

NextHydration == GenerateReminders

SpecHydration == InitHydration /\ [][NextHydration]_vars

(***************************************************************************)
(* Specification Spec: the application generating and swapping plans.      *)
(* One run of generate_daily_plan is a start step, one step per slot and   *)
(* a final step; the inputs of the sidebar stay fixed.                     *)
(***************************************************************************)
Profiles == {Profile(60, 160, 19, "female", "normal", "maintain")}

PlanWakeTimes == {hours(7)}
PlanBedTimes == {hours(23)}

EveningPractice == TrainingSession("Practice", hours(18), hours(20), "skill", "hard")

\* a session of the "Add session" form whose End equals its Start
ZeroPractice == TrainingSession("Training", hours(18), hours(18), "skill", "moderate")

\* the sessions the "Add session" form gives; a widget of the edit loop is
\* set to the value one of them has for it
PlanSessionPool == {EveningPractice, ZeroPractice}

PlanDayTypes == {"classes", "tournament"}

\* the days the "Date" input gives
PlanDates == {0, 1}

\* how a Streamlit build identifies a widget from one script run to the
\* next: by all its parameters, or by its key alone
WidgetRules == {"parameters", "key"}

NoConstraints == UserConstraints(FALSE, <<>>, <<>>)
LactoseNoBanana == UserConstraints(TRUE, <<"Banana">>, <<>>)
NothingSafe == UserConstraints(TRUE, <<"Rice", "Chicken">>, <<"milk">>)
PlanConstraints == {NoConstraints, LactoseNoBanana, NothingSafe}

Oats == [name |-> "Oats", kcal_per_100g |-> 380, carbs_per_100g |-> 66,
         protein_per_100g |-> 13, fat_per_100g |-> 7, tags |-> <<"breakfast">>]
Rice == [name |-> "Rice", kcal_per_100g |-> 130, carbs_per_100g |-> 28,
         protein_per_100g |-> 3, fat_per_100g |-> 0, lactose_free |-> TRUE,
         tags |-> <<"lunch", "dinner">>]
Chicken == [name |-> "Chicken", kcal_per_100g |-> 165, carbs_per_100g |-> 0,
            protein_per_100g |-> 31, fat_per_100g |-> 4, allergens |-> <<>>,
            tags |-> <<"lunch", "dinner", "recovery">>]
Banana == [name |-> "Banana", kcal_per_100g |-> 90, carbs_per_100g |-> 23,
           protein_per_100g |-> 1, fat_per_100g |-> 0,
           tags |-> <<"snack", "pre-event", "quick_sugar">>]
Milk == [name |-> "Milk", kcal_per_100g |-> 60, carbs_per_100g |-> 5,
         protein_per_100g |-> 3, fat_per_100g |-> 3, lactose_free |-> FALSE,
         allergens |-> <<"milk">>, tags |-> <<"breakfast", "snack">>]
Water == [name |-> "Water", kcal_per_100g |-> 0, carbs_per_100g |-> 0,
          protein_per_100g |-> 0, fat_per_100g |-> 0, tags |-> <<"snack">>]

DairyCatalog == <<Milk, Rice, Chicken>>
WaterCatalog == <<Oats, Rice, Chicken, Banana, Water>>

TemplateA == [name |-> "A", purposes |-> <<"lunch", "dinner">>,
              items |-> <<[name |-> "Rice", role |-> <<"c", "a", "r", "b">>,
                           grams |-> 200],
                          [name |-> "Chicken",
                           role |-> <<"P", "r", "o", "t", "e", "i", "n">>]>>]
TemplateB == [name |-> "B", purposes |-> <<"lunch", "dinner">>,
              items |-> <<[name |-> "Chicken",
                           role |-> <<"p", "r", "o", "t", "e", "i", "n">>,
                           grams |-> 200],
                          [name |-> "Rice"]>>]
TemplateC == [name |-> "C", purpose |-> "breakfast",
              items |-> <<[name |-> "Oats", role |-> <<"g", "r", "a", "i", "n">>,
                           grams |-> 80],
                          [name |-> "Milk", role |-> <<"D", "A", "I", "R", "Y">>]>>]
TemplateD == [name |-> "D", purpose |-> "dinner",
              items |-> <<[name |-> "Rice", role |-> <<"b", "a", "s", "e">>]>>]

\* a template whose name is the empty string
TemplateE == [name |-> "", purpose |-> "dinner",
              items |-> <<[name |-> "Chicken",
                           role |-> <<"p", "r", "o", "t", "e", "i", "n">>]>>]

Scenario(ss, c, f, t) == [sessions |-> ss, constraints |-> c, foods |-> f, templates |-> t]

\* the sidebar inputs and data files of the runs explored
Scenarios ==
    {Scenario(<<>>, NoConstraints, DairyCatalog, <<TemplateA, TemplateB>>),
     Scenario(<<>>, NoConstraints, DairyCatalog, <<TemplateA>>),
     Scenario(<<EveningPractice>>, NoConstraints, DairyCatalog, <<TemplateC, TemplateD>>),
     Scenario(<<>>, NoConstraints, WaterCatalog, <<>>),
     Scenario(<<>>, LactoseNoBanana, WaterCatalog, <<>>),
     Scenario(<<>>, LactoseNoBanana, DairyCatalog, <<TemplateA>>),
     Scenario(<<EveningPractice>>, NothingSafe, DairyCatalog, <<TemplateC>>),
     Scenario(<<>>, NoConstraints, DairyCatalog, <<TemplateD, TemplateE>>)}

\* datetime.combine(date, t) for the day date and the time of day t
build_datetime(d, t) == d * hours(24) + t

\* datetime.time(): the time of day
time(t) == t % hours(24)

\* the value= and index= arguments of the five widgets of a stored session
widget_defaults(s) ==
    [label |-> s.label, start |-> time(s.start), end |-> time(s.end),
     session_type |-> s.session_type, intensity |-> s.intensity]

\* the widgets of the stored sessions ss after a script run showed them
\* unedited
shown(ss) ==
    [i \in DOMAIN ss |->
        [default |-> widget_defaults(ss[i]), value |-> widget_defaults(ss[i])]]

Init ==
    /\ pc = "idle"
    /\ profile \in Profiles
    /\ date = 0
    /\ wake \in PlanWakeTimes
    /\ bed \in PlanBedTimes
    /\ day_type = "classes"
    /\ \E sc \in Scenarios :
          /\ sessions = sc.sessions
          /\ constraints = sc.constraints
          /\ foods = sc.foods
          /\ templates = sc.templates
    /\ force_swap = <<>>
    /\ generated = <<>>
    /\ target_kcal = 0
    /\ slots = <<>>
    /\ meals = <<>>
    /\ idx = 0
    /\ used_today = {}
    /\ used_templates = {}
    /\ draws = <<>>
    /\ baseline = <<>>
    /\ edits = 0
    /\ generate_now = FALSE
    /\ session_widgets = shown(sessions)
    /\ targets = <<>>
    /\ total_water_ml = 0
    /\ interval_minutes = 0
    /\ reminders = <<>>
    /\ safe_foods = <<>>
    /\ pick_purpose = ""
    /\ force_new = FALSE
    /\ exclude_name = <<>>
    /\ picked = <<>>

widgetVars == <<profile, date, wake, bed, day_type, constraints>>
fileVars == <<foods, templates>>
inputVars == <<sessions, widgetVars, fileVars>>
runState == <<target_kcal, slots, used_templates, meals, used_today, idx, draws>>
resultVars == <<force_swap, generated, baseline, targets, reminders>>
pickIdle == <<safe_foods, pick_purpose, force_new, exclude_name, picked,
             total_water_ml, interval_minutes>>

\* generate_daily_plan, lines 661-667, called with the sessions ss and with
\* wake_dt and bed_dt of the planned day
StartRunBad(ss) ==
    /\ LET Started(kcal) ==
               /\ target_kcal' = kcal
               /\ slots' = generate_slots(build_datetime(date, wake),
                                          build_datetime(date, bed), ss, kcal,
                                          day_type)
       IN  Started(total_kcal(profile, ss))
    /\ used_templates' = {generated[i].template :
                              i \in {j \in DOMAIN generated : "template" \in DOMAIN generated[j]}}
    /\ meals' = <<>>
    /\ used_today' = {}
    /\ idx' = 1
    /\ draws' = <<>>
    /\ pc' = "compose"

StartRun(ss) ==
    /\ LET Started(kcal) ==
               /\ target_kcal' = kcal
               /\ slots' = generate_slots(build_datetime(date, wake),
                                          build_datetime(date, bed), ss, kcal,
                                          day_type)
       IN  Started(total_kcal(profile, ss))
    /\ used_templates' = {}
    /\ meals' = <<>>
    /\ used_today' = {}
    /\ idx' = 1
    /\ draws' = <<>>
    /\ pc' = "compose"

\* get_template_sessions(date, day_type) of app.py
get_template_sessions(d, dt) ==
    CASE dt = "tournament" ->
            <<TrainingSession("Competition Block 1", build_datetime(d, hours(9)),
                              build_datetime(d, hours(11)), "tournament", "hard"),
              TrainingSession("Competition Block 2", build_datetime(d, hours(14)),
                              build_datetime(d, hours(18)), "tournament", "hard")>>
      [] dt = "classes" ->
            <<TrainingSession("Classes", build_datetime(d, hours(10)),
                              build_datetime(d, hours(15)), "class", "easy"),
              TrainingSession("Clases", build_datetime(d, hours(19)),
                              build_datetime(d, hours(21)), "skill", "moderate")>>
      [] dt = "rest" ->
            <<TrainingSession("Classes", build_datetime(d, hours(10)),
                              build_datetime(d, hours(15)), "class", "easy")>>
      [] OTHER -> <<>>

\* TrainingSession(label=..., start=build_datetime(date, ...), ...) from the
\* values v of the form or of the five widgets of a session
session_of(v, d) ==
    TrainingSession(v.label, build_datetime(d, v.start), build_datetime(d, v.end),
                    v.session_type, v.intensity)

\* the five widget calls of the edit loop for the stored sessions ss, sw
\* being the widgets of the last script run, edited by the user or not.
\* Each widget gets its default from the stored session.  A widget that was
\* not shown in the last run returns its default.  One that was shown is the
\* same widget, and returns the value it holds, when the build identifies it
\* by its key alone, or by all its parameters and its default did not change;
\* otherwise it is a new widget and returns its default.
edit_widgets(ss, sw, rule) ==
    [i \in DOMAIN ss |->
        LET Widgets(d) ==
                LET Value(f) ==
                        IF i \in DOMAIN sw /\ (rule = "key" \/ sw[i].default[f] = d[f])
                        THEN sw[i].value[f]
                        ELSE d[f]
                IN  [default |-> d,
                     value |-> [label |-> Value("label"), start |-> Value("start"),
                                end |-> Value("end"),
                                session_type |-> Value("session_type"),
                                intensity |-> Value("intensity")]]
        IN  Widgets(widget_defaults(ss[i]))]

\* st.session_state.sessions.pop(remove_idx)
pop(ss, i) == SubSeq(ss, 1, i - 1) \o SubSeq(ss, i + 1, Len(ss))

\* the edit loop of a script run on the stored sessions ss with the date d:
\* every session is stored again from its five widgets, and the session
\* whose "Remove" button was clicked is popped after the loop; remove_idx is
\* <<>> for None
edit_loop(ss, sw, d, remove_idx) ==
    \E rule \in WidgetRules :
        LET Looped(w) ==
                LET Stored(r) ==
                        sessions' = IF remove_idx = <<>> THEN r
                                    ELSE pop(r, remove_idx[1])
                IN  /\ session_widgets' = w
                    /\ Stored([i \in DOMAIN w |-> session_of(w[i].value, d)])
        IN  Looped(edit_widgets(ss, sw, rule))

\* a script run started by a widget or a button of the sidebar other than
\* "Generate plan"; generate is false, so no plan run follows.  The number
\* of such runs that change an input is bounded by MaxEdits
InputRun ==
    /\ pc = "idle"
    /\ ~generate_now
    /\ edits < MaxEdits
    /\ UNCHANGED <<runState, resultVars, generate_now, pickIdle>>

Counted == edits' = IF inputVars' # inputVars THEN edits + 1 ELSE edits

\* the "Reset to template" button, then the edit loop
ResetToTemplate ==
    /\ InputRun
    /\ edit_loop(get_template_sessions(date, day_type), session_widgets, date, <<>>)
    /\ pc' = "idle"
    /\ UNCHANGED <<widgetVars, fileVars>>
    /\ Counted

\* the "Clear" button; the edit loop is skipped for the empty list
ClearSessions ==
    /\ InputRun
    /\ edit_loop(<<>>, session_widgets, date, <<>>)
    /\ pc' = "idle"
    /\ UNCHANGED <<widgetVars, fileVars>>
    /\ Counted

\* the "Add session" button with the values of the form, then the edit loop
AddSession ==
    /\ InputRun
    /\ Len(sessions) < MaxSessions
    /\ \E s \in PlanSessionPool :
          edit_loop(Append(sessions, session_of(widget_defaults(s), date)),
                    session_widgets, date, <<>>)
    /\ pc' = "idle"
    /\ UNCHANGED <<widgetVars, fileVars>>
    /\ Counted

\* the script run started by a change of one of the five widgets of session
\* i, which holds the value v from then on
EditSession ==
    /\ InputRun
    /\ \E i \in DOMAIN session_widgets :
          \E f \in DOMAIN session_widgets[i].value :
              \E v \in {widget_defaults(s)[f] : s \in PlanSessionPool} :
                  edit_loop(sessions, [session_widgets EXCEPT ![i].value[f] = v],
                            date, <<>>)
    /\ pc' = "idle"
    /\ UNCHANGED <<widgetVars, fileVars>>
    /\ Counted

\* the "Remove" button of session i: the edit loop, then the pop and
\* st.rerun(), which ends the script run above "if generate:"
RemoveSession ==
    /\ InputRun
    /\ \E i \in DOMAIN sessions : edit_loop(sessions, session_widgets, date, <<i>>)
    /\ pc' = "rerun"
    /\ UNCHANGED <<widgetVars, fileVars>>
    /\ Counted

\* the script run after one input of the sidebar was changed; a new date
\* moves every session to the new day in the edit loop
ChangeWidget ==
    /\ InputRun
    /\ \/ profile' \in Profiles /\ UNCHANGED <<date, wake, bed, day_type, constraints>>
       \/ date' \in PlanDates /\ UNCHANGED <<profile, wake, bed, day_type, constraints>>
       \/ wake' \in PlanWakeTimes /\ UNCHANGED <<profile, date, bed, day_type, constraints>>
       \/ bed' \in PlanBedTimes /\ UNCHANGED <<profile, date, wake, day_type, constraints>>
       \/ day_type' \in PlanDayTypes /\ UNCHANGED <<profile, date, wake, bed, constraints>>
       \/ constraints' \in PlanConstraints /\ UNCHANGED <<profile, date, wake, bed, day_type>>
    /\ edit_loop(sessions, session_widgets, date', <<>>)
    /\ pc' = "idle"
    /\ UNCHANGED fileVars
    /\ Counted

\* bad = [s for s in sessions if s.end <= s.start]
bad_sessions(ss) == SelectSeq(ss, LAMBDA s : s.end <= s.start)

\* the script run ends at st.stop before generate_daily_plan is called: a
\* data file was not found, or a session has End <= Start
RunStops(found, ss) == ~found \/ bad_sessions(ss) # <<>>

\* the part of a script run under "if generate:", up to the call of
\* generate_daily_plan with the sessions ss; found tells whether open()
\* found both data files
TriggerRun(ss) ==
    /\ generate_now' = FALSE
    /\ \E found \in BOOLEAN :
          IF RunStops(found, ss)
          THEN pc' = "idle" /\ UNCHANGED runState
          ELSE StartRun(ss)

\* the "Generate plan" button: the edit loop, then a run with whatever
\* force_swap holds
GenerateClicked ==
    /\ pc = "idle"
    /\ edit_loop(sessions, session_widgets, date, <<>>)
    /\ TriggerRun(sessions')
    /\ UNCHANGED <<resultVars, edits, widgetVars, fileVars, pickIdle>>

\* the "Swap this meal" button of meal i: generate is false in this script
\* run, which stores the directive, sets generate_now and ends at st.rerun()
SwapClicked ==
    /\ pc = "idle"
    /\ ~generate_now
    /\ generated # <<>>
    /\ \E i \in DOMAIN generated :
          force_swap' = <<[purpose |-> generated[i].purpose,
                           time |-> isoformat(generated[i].time),
                           exclude_template |-> GetOpt(generated[i], "template")]>>
    /\ generate_now' = TRUE
    /\ edit_loop(sessions, session_widgets, date, <<>>)
    /\ pc' = "rerun"
    /\ UNCHANGED <<runState, generated, baseline, targets, reminders, edits,
                   widgetVars, fileVars, pickIdle>>

\* the script run started by st.rerun(): no button is clicked, the edit loop
\* runs, and the plan is generated when generate_now is set
Rerun ==
    /\ pc = "rerun"
    /\ edit_loop(sessions, session_widgets, date, <<>>)
    /\ IF generate_now
       THEN TriggerRun(sessions')
       ELSE pc' = "idle" /\ UNCHANGED <<runState, generate_now>>
    /\ UNCHANGED <<resultVars, edits, widgetVars, fileVars, pickIdle>>

\* the condition of line 672
SwapMatches(fs, slot) ==
    /\ fs # <<>>
    /\ fs[1].purpose = slot.purpose
    /\ fs[1].time = isoformat(slot.time)

ExcludeFor(fs, slot) == IF SwapMatches(fs, slot) THEN fs[1].exclude_template ELSE <<>>

SlotChoices ==
    Choices(slots[idx], foods, constraints, templates, used_templates,
            SwapMatches(force_swap, slots[idx]), ExcludeFor(force_swap, slots[idx]))

Composed(k) ==
    plan_meal_for_slot(slots[idx], foods, constraints, used_today, templates,
                       used_templates, SwapMatches(force_swap, slots[idx]),
                       ExcludeFor(force_swap, slots[idx]), k)

\* {"time": ..., "label": ..., "purpose": ..., "kcal_target": ..., **meal_plan}
MealOf(slot, mp) ==
    IF "template" \in DOMAIN mp
    THEN [time |-> slot.time, label |-> slot.label, purpose |-> slot.purpose,
          kcal_target |-> slot.kcal_target, items |-> mp.items,
          totals |-> mp.totals, note |-> mp.note, template |-> mp.template]
    ELSE [time |-> slot.time, label |-> slot.label, purpose |-> slot.purpose,
          kcal_target |-> slot.kcal_target, items |-> mp.items,
          totals |-> mp.totals, note |-> mp.note]

\* one iteration of the loop over slots, lines 668-691: the meal is
\* appended, or an exception leaves generate_daily_plan, the application
\* reports it and stops the script before force_swap is cleared
ComposeSlot ==
    /\ pc = "compose"
    /\ idx <= Len(slots)
    /\ \E k \in SlotChoices :
          LET Step(mp) ==
              IF mp.raised
              THEN /\ pc' = "idle"
                   /\ meals' = <<>>
                   /\ idx' = 0
                   /\ used_today' = {}
                   /\ used_templates' = {}
                   /\ draws' = <<>>
              ELSE /\ pc' = pc
                   /\ meals' = Append(meals, MealOf(slots[idx], mp.meal[1]))
                   /\ idx' = idx + 1
                   /\ used_today' = mp.used_today
                   /\ used_templates' = mp.used_templates
                   /\ draws' = IF k = 0 THEN draws
                               ELSE Append(draws,
                                        [pool |-> pool(templates, slots[idx].purpose,
                                                      used_templates,
                                                      SwapMatches(force_swap, slots[idx]),
                                                      ExcludeFor(force_swap, slots[idx])),
                                         pick |-> k])
          IN  Step(Composed(k))
    /\ UNCHANGED <<force_swap, generated, baseline, targets, reminders,
                   target_kcal, slots, edits, generate_now, session_widgets,
                   inputVars, pickIdle>>

\* lines 693-701 and the application storing the result: generated, targets
\* and reminders are the meals, targets and hydration of the stored plan
FinishRun ==
    /\ pc = "compose"
    /\ idx > Len(slots)
    /\ generated' = SortByTime(meals)
    /\ LET Stored(t) ==
               /\ targets' = <<t>>
               /\ reminders' = generate_hydration_reminders(
                                   build_datetime(date, wake),
                                   build_datetime(date, bed), sessions,
                                   t.water_ml, 120)
       IN  Stored(estimate_daily_targets(profile, sessions))
    /\ baseline' = IF force_swap = <<>>
                   THEN <<[meals |-> SortByTime(meals), draws |-> draws,
                           inputs |-> inputVars]>>
                   ELSE baseline
    /\ force_swap' = <<>>
    /\ pc' = "idle"
    /\ meals' = <<>>
    /\ idx' = 0
    /\ used_today' = {}
    /\ used_templates' = {}
    /\ draws' = <<>>
    /\ UNCHANGED <<target_kcal, slots, edits, generate_now, session_widgets,
                   inputVars, pickIdle>>

Next ==
    \/ ResetToTemplate \/ ClearSessions \/ AddSession \/ EditSession \/ RemoveSession
    \/ ChangeWidget
    \/ GenerateClicked \/ SwapClicked \/ Rerun \/ ComposeSlot \/ FinishRun

Spec == Init /\ [][Next]_vars

(***************************************************************************)
(* Properties of the swap                                                  *)
(***************************************************************************)
\* meal i of the running plan is the one the swap directive names, and the
\* directive carries the template name of that slot in the displayed plan
C1_Targeted(i) ==
    /\ pc = "compose"
    /\ force_swap # <<>>
    /\ i \in DOMAIN meals
    /\ force_swap[1].purpose = meals[i].purpose
    /\ force_swap[1].time = isoformat(meals[i].time)
    /\ force_swap[1].exclude_template # <<>>
    /\ \E j \in DOMAIN generated :
          /\ generated[j].purpose = meals[i].purpose
          /\ generated[j].time = meals[i].time
          /\ "template" \in DOMAIN generated[j]
          /\ <<generated[j].template>> = force_swap[1].exclude_template

C1_OtherCandidate(i) ==
    \E t \in Range(templates) :
        /\ TemplateMatches(t, meals[i].purpose)
        /\ <<t.name>> # force_swap[1].exclude_template

\* C1, for the targeted slots whose purpose is matched by another template
\* of a different name, where pick_template_for_purpose need not fall back
\* to the excluded template: the meal produced for the slot never carries
\* the excluded template name, for every resolution of the random choice.
C1_NeverReselectsIfOther ==
    \A i \in DOMAIN meals :
        (C1_Targeted(i) /\ C1_OtherCandidate(i)) =>
            GetOpt(meals[i], "template") # force_swap[1].exclude_template

\* the run with a swap directive is complete, the directive names slot t
\* and the inputs are those of the last run without a directive
C2_SwapRunDone(t) ==
    /\ pc = "compose"
    /\ idx > Len(slots)
    /\ force_swap # <<>>
    /\ baseline # <<>>
    /\ baseline[1].inputs = inputVars
    /\ t \in DOMAIN slots
    /\ SwapMatches(force_swap, slots[t])

\* every random.choice of the two runs made from the same pool gave the
\* same element
C2_SameResolution ==
    \A d1, d2 \in Range(draws) \cup Range(baseline[1].draws) :
        d1.pool = d2.pool => d1.pick = d2.pick

\* C2: in a plan generated with a matching swap directive every slot other
\* than the targeted one has the items and totals it has in the plan
\* generated without the directive, the random choices being resolved alike.
C2_OtherSlotsUnchanged ==
    \A t \in DOMAIN slots :
        (C2_SwapRunDone(t) /\ C2_SameResolution) =>
            /\ Len(meals) = Len(baseline[1].meals)
            /\ \A i \in DOMAIN meals :
                  ~SwapMatches(force_swap, slots[i]) =>
                      /\ meals[i].items = baseline[1].meals[i].items
                      /\ meals[i].totals = baseline[1].meals[i].totals

(***************************************************************************)
(* Properties of filter_foods_by_constraints                               *)
(***************************************************************************)
FilterDone == pc = "filter_done"

\* the three constraints, stated on the fields of a food
C8_Satisfies(f) ==
    /\ constraints.lactose_intolerant =>
          ("lactose_free" \notin DOMAIN f \/ f.lactose_free = TRUE)
    /\ \A a \in Range(constraints.allergies) :
          "allergens" \in DOMAIN f => a \notin Range(f.allergens)
    /\ \A n \in Range(constraints.disliked_foods) : f.name # n

C8_Kept == {i \in DOMAIN foods : C8_Satisfies(foods[i])}

\* the k-th smallest index of the kept foods
C8_Nth(k) == CHOOSE i \in C8_Kept : Cardinality({j \in C8_Kept : j <= i}) = k

\* C8: the result is exactly the subsequence of the foods that satisfy the
\* lactose, allergen and dislike constraints, in their original order.
C8_FilterExact ==
    FilterDone =>
        /\ Len(safe_foods) = Cardinality(C8_Kept)
        /\ \A k \in DOMAIN safe_foods : safe_foods[k] = foods[C8_Nth(k)]

\* a lactose intolerant user with an allergy and a dislike; the catalog has
\* a food without a lactose_free field that is kept, a later food that is
\* kept too, and a food that is dropped
C8_Witness ==
    /\ FilterDone
    /\ constraints.lactose_intolerant
    /\ constraints.allergies # <<>>
    /\ constraints.disliked_foods # <<>>
    /\ Len(safe_foods) = 2
    /\ Len(foods) = 3
    /\ "lactose_free" \notin DOMAIN safe_foods[1]
    /\ safe_foods[1] # safe_foods[2]

(***************************************************************************)
(* Properties of pick_template_for_purpose                                 *)
(***************************************************************************)
PickReturned == pc \in {"pick_done", "pick_raised"}

C9_MatchingNames ==
    {templates[i].name :
        i \in {j \in DOMAIN templates : TemplateMatches(templates[j], pick_purpose)}}

\* exclude_name is the name X
C9_Excludes(X) == exclude_name = <<X>>

\* the call returned a matching template not named X
C9_ReturnedOther(X) ==
    /\ pc = "pick_done"
    /\ picked # <<>>
    /\ TemplateMatches(picked[1], pick_purpose)
    /\ picked[1].name # X

\* C9: with force_new and exclude_name = X the call returns a matching
\* template not named X whenever some matching template is not named X, for
\* every used_templates; it returns none when no template matches.
C9_PickExcludesAny ==
    PickReturned =>
        /\ \A X \in ExcludeNames :
              (force_new /\ C9_Excludes(X) /\ C9_MatchingNames \ {X} # {})
                  => C9_ReturnedOther(X)
        /\ C9_MatchingNames = {} => (pc = "pick_done" /\ picked = <<>>)

\* the statement of C9 for the names X that are not the empty string
C9_PickExcludes ==
    PickReturned =>
        /\ \A X \in ExcludeNames \ {""} :
              (force_new /\ C9_Excludes(X) /\ C9_MatchingNames \ {X} # {})
                  => C9_ReturnedOther(X)
        /\ C9_MatchingNames = {} => (pc = "pick_done" /\ picked = <<>>)

\* the excluded template matches, is unused, and another one was returned
C9_Witness ==
    /\ pc = "pick_done"
    /\ force_new
    /\ exclude_name # <<>>
    /\ exclude_name[1] # ""
    /\ exclude_name[1] \in C9_MatchingNames
    /\ exclude_name[1] \notin used_templates
    /\ picked # <<>>
    /\ picked[1].name # exclude_name[1]
    /\ picked[1].name \in used_templates

\* C10: whenever some template matches, the call returns one of the
\* matching templates, for every force_new, exclude_name and used_templates.
C10_PickTotal ==
    PickReturned =>
        (C9_MatchingNames # {} =>
            /\ pc = "pick_done"
            /\ picked # <<>>
            /\ picked[1] \in Range(templates)
            /\ TemplateMatches(picked[1], pick_purpose))

(***************************************************************************)
(* Properties of generate_slots                                            *)
(***************************************************************************)
SlotsDone == pc = "slots_done"

PurposeTimes(sl, purposes) ==
    {sl[i].time : i \in {j \in DOMAIN sl : sl[j].purpose \in purposes}}

CountPurpose(sl, purpose) ==
    Cardinality({i \in DOMAIN sl : sl[i].purpose = purpose})

\* C3: no two slots of a returned schedule have both the same purpose and
\* the same time.
C3_SlotIdentity ==
    SlotsDone =>
        \A i, j \in DOMAIN slots :
            i # j => ~(slots[i].purpose = slots[j].purpose
                       /\ slots[i].time = slots[j].time)

\* two fuel sessions with the same start, each of which got a pre-event slot
C3_Witness ==
    /\ SlotsDone
    /\ \E i, j \in DOMAIN sessions :
          /\ i # j
          /\ sessions[i].start = sessions[j].start
          /\ sessions[i] \in Range(fuel_sessions(sessions))
          /\ sessions[j] \in Range(fuel_sessions(sessions))
    /\ CountPurpose(slots, "pre-event") = 2

\* sum(s.kcal_target for s in slots)
C4_Total == FSum([i \in DOMAIN slots |-> slots[i].kcal_target])

\* |x - y| < 0.000001
C4_Near(x, y) ==
    LET d == FSub(x, y) IN FIsZero(d) \/ FCmpAbs(d, Dec(1, 1000000)) < 0

\* C4: the kcal_target values of a returned schedule add up to target_kcal,
\* up to the rounding of the floating-point operations (less than one
\* millionth of a kcal).
C4_KcalSum ==
    SlotsDone => C4_Near(C4_Total, FromInt(target_kcal))

\* a schedule whose raw fractions do not add up to 1: a rest day with a
\* pre-event, a post-workout and a snack slot
C4_Witness ==
    /\ SlotsDone
    /\ day_type = "rest"
    /\ CountPurpose(slots, "pre-event") > 0
    /\ CountPurpose(slots, "post-workout") > 0
    /\ CountPurpose(slots, "snack") > 0
    /\ sum_f(raw_fractions(slots, day_type)) # FromInt(1)

\* C5: every pre-event and post-workout slot lies between wake+30m and
\* bed-45m, wherever the sessions lie.
C5_WakeBedMargins ==
    SlotsDone =>
        \A i \in DOMAIN slots :
            slots[i].purpose \in {"pre-event", "post-workout"} =>
                /\ slots[i].time >= wake + minutes(30)
                /\ slots[i].time <= bed - minutes(45)

\* C6: the returned schedule is in non-decreasing time order and holds
\* exactly one breakfast, one lunch and one dinner.
C6_ScheduleShape ==
    SlotsDone =>
        /\ \A i \in 1..(Len(slots) - 1) : slots[i].time <= slots[i + 1].time
        /\ CountPurpose(slots, "breakfast") = 1
        /\ CountPurpose(slots, "lunch") = 1
        /\ CountPurpose(slots, "dinner") = 1

\* a schedule in which dinner, appended before lunch, had to be moved, and
\* to which a gap snack was added
C6_Witness ==
    /\ SlotsDone
    /\ CountPurpose(slots, "snack") > 0
    /\ CountPurpose(slots, "pre-event") > 0
    /\ \E i, j \in DOMAIN slots :
          i < j /\ slots[i].purpose = "lunch" /\ slots[j].purpose = "dinner"

\* C7: with exactly one fuel session whose start-1h30m is at or after
\* wake+30m, the schedule has a pre-event slot at start-1h30m when that time
\* is at least 60 minutes from breakfast, lunch and dinner; otherwise one at
\* start-2h30m when that time is at or after wake+10m and at least 60 minutes
\* from the three main meals; otherwise none.  The skill/hard session
\* 18:00-20:00 on a 07:00-23:00 day gets a pre-event slot.
C7_Far(t) ==
    \A m \in PurposeTimes(slots, {"breakfast", "lunch", "dinner"}) :
        Abs(m - t) >= hours(1)

C7_OneFuel ==
    /\ SlotsDone
    /\ Len(fuel_sessions(sessions)) = 1
    /\ fuel_sessions(sessions)[1].start - minutes(90) >= wake + minutes(30)

C7_PreEventPlacement ==
    /\ C7_OneFuel =>
        LET p == fuel_sessions(sessions)[1].start - minutes(90)
            pre == PurposeTimes(slots, {"pre-event"})
        IN  /\ CountPurpose(slots, "pre-event") <= 1
            /\ IF C7_Far(p) THEN pre = {p}
               ELSE IF p - hours(1) >= wake + minutes(10) /\ C7_Far(p - hours(1))
                    THEN pre = {p - hours(1)}
               ELSE pre = {}
    /\ ( /\ SlotsDone
         /\ wake = hours(7)
         /\ bed = hours(23)
         /\ sessions = <<TrainingSession("Practice", hours(18), hours(20),
                                         "skill", "hard")>> )
       => CountPurpose(slots, "pre-event") >= 1

\* the one-hour-earlier retry placed the pre-event slot
C7_Witness ==
    /\ C7_OneFuel
    /\ ~C7_Far(fuel_sessions(sessions)[1].start - minutes(90))
    /\ PurposeTimes(slots, {"pre-event"})
           = {fuel_sessions(sessions)[1].start - minutes(150)}

\* the retry time was itself too close and the slot was discarded
C7_WitnessDiscard ==
    /\ C7_OneFuel
    /\ ~C7_Far(fuel_sessions(sessions)[1].start - minutes(90))
    /\ fuel_sessions(sessions)[1].start - minutes(150) >= wake + minutes(10)
    /\ PurposeTimes(slots, {"pre-event"}) = {}

(***************************************************************************)
(* Properties of plan_meal_for_slot and generate_daily_plan                *)
(***************************************************************************)
\* C11: every item of every meal composed by plan_meal_for_slot, on the
\* template path and on the heuristic path for every purpose, has a grams
\* value that is a multiple of 10 and at least 20 (grams are in tenths).
C11_PortionRounding ==
    \A i \in DOMAIN meals :
        \A j \in DOMAIN meals[i].items :
            /\ meals[i].items[j].grams % 100 = 0
            /\ meals[i].items[j].grams >= 200

\* C12: whenever at least one food passes the constraint filter,
\* plan_meal_for_slot returns, without raising, a meal with at least one
\* item, whatever the slot, the templates and the nutrient values (>= 0) of
\* the catalog are, for every resolution of the random choice.
C12_ComposableMeal ==
    (/\ pc = "compose"
     /\ idx <= Len(slots)
     /\ filter_foods_by_constraints(foods, constraints) # <<>>)
    => \A k \in SlotChoices :
           /\ ~Composed(k).raised
           /\ Composed(k).meal[1].items # <<>>

\* a meal of the degraded plan: no items, all-zero totals, the explanatory
\* note and no template name
C13_EmptyMeal(m) ==
    /\ m.items = <<>>
    /\ m.totals = [kcal |-> 0, carbs |-> 0, protein |-> 0, fat |-> 0]
    /\ m.note = <<"No foods available that match your constraints.">>
    /\ "template" \notin DOMAIN m

\* the meals are those of the slots sl, in order
C13_OnePerSlot(ms, sl) ==
    /\ Len(ms) = Len(sl)
    /\ \A i \in DOMAIN ms :
          ms[i].time = sl[i].time /\ ms[i].purpose = sl[i].purpose

\* C13: when no food passes the constraint filter, no slot's composition
\* raises, the plan returned has one meal per scheduled slot, every meal is
\* the empty meal with the explanatory note and no template name, and
\* used_today and used_templates stay empty through the whole run.
C13_DegradedPlan ==
    (filter_foods_by_constraints(foods, constraints) = <<>> /\ pc = "compose") =>
        /\ used_today = {}
        /\ used_templates = {}
        /\ \A i \in DOMAIN meals : C13_EmptyMeal(meals[i])
        /\ idx <= Len(slots) => \A k \in SlotChoices : ~Composed(k).raised
        /\ idx > Len(slots) => C13_OnePerSlot(SortByTime(meals), slots)

\* a degraded plan of six meals is returned although templates exist
C13_Witness ==
    /\ filter_foods_by_constraints(foods, constraints) = <<>>
    /\ foods # <<>>
    /\ templates # <<>>
    /\ pc = "compose"
    /\ idx > Len(slots)
    /\ Len(meals) >= 6
    /\ \A i \in DOMAIN meals : meals[i].items = <<>>

(***************************************************************************)
(* Properties of estimate_daily_targets                                    *)
(***************************************************************************)
\* C14: estimate_daily_targets fails, returning no targets, whenever sex is
\* not male or female, or activity_level is not low, normal or high, or goal
\* is not cut, maintain or gain.
C14_FailFast ==
    (\/ profile.sex \notin {"male", "female"}
     \/ profile.activity_level \notin {"low", "normal", "high"}
     \/ profile.goal \notin {"cut", "maintain", "gain"})
    => (pc # "targets_done" /\ targets = <<>>)

\* the call returned for a single session of intensity easy
C15_EasyDone ==
    /\ pc = "targets_done"
    /\ Len(sessions) = 1
    /\ sessions[1].intensity = "easy"
    /\ sessions[1].end > sessions[1].start
    /\ profile.weight_kg > 0

\* session_kcal returned for the same session (same type, duration and
\* weight) with intensity hard
C15_HardKcal ==
    estimate_daily_targets(profile,
        <<[sessions[1] EXCEPT !.intensity = "hard"]>>).session_kcal

\* C15 as claimed: for every session type, class included, the session_kcal
\* of a single hard session is strictly greater than that of the same
\* session with intensity easy.
C15_HardAboveEasy ==
    C15_EasyDone => C15_HardKcal > targets[1].session_kcal

\* C15 as amended: strictly greater for every session type other than
\* class, for a weight of at least 30 kg; equal for a class session.
C15_HardAboveEasyUnlessClass ==
    C15_EasyDone =>
        /\ (sessions[1].session_type # "class" /\ profile.weight_kg >= 30)
               => C15_HardKcal > targets[1].session_kcal
        /\ sessions[1].session_type = "class"
               => C15_HardKcal = targets[1].session_kcal

\* an easy skill session of 90 minutes at 61 kg, hard burning more
C15_Witness ==
    /\ C15_EasyDone
    /\ sessions[1].session_type = "skill"
    /\ sessions[1].end - sessions[1].start = minutes(90)
    /\ profile.weight_kg = 61
    /\ C15_HardKcal > targets[1].session_kcal
    /\ targets[1].session_kcal > 0

\* the inputs are valid: enumerated values in their sets, weight and height
\* positive, age not negative, every session ending after its start
C16_Valid ==
    /\ profile.sex \in {"male", "female"}
    /\ profile.activity_level \in {"low", "normal", "high"}
    /\ profile.goal \in {"cut", "maintain", "gain"}
    /\ profile.weight_kg > 0
    /\ profile.height_cm > 0
    /\ profile.age >= 0
    /\ \A i \in DOMAIN sessions : sessions[i].end > sessions[i].start

\* the ranges the application accepts for weight, height and age
C16_InRange ==
    /\ profile.weight_kg >= 30 /\ profile.weight_kg <= 120
    /\ profile.height_cm >= 130 /\ profile.height_cm <= 220
    /\ profile.age >= 12 /\ profile.age <= 80

\* the call returned the nine fields, four of them strictly positive
C16_Returned ==
    /\ pc = "targets_done"
    /\ {"kcal", "protein_g", "carbs_g", "fat_g", "session_kcal", "bmr",
        "water_ml", "baseline_water_ml", "training_water_ml"}
           \subseteq DOMAIN targets[1]
    /\ targets[1].kcal > 0
    /\ targets[1].protein_g > 0
    /\ targets[1].fat_g > 0
    /\ targets[1].water_ml > 0

\* C16 as claimed: for every valid input estimate_daily_targets returns the
\* nine fields with kcal, protein_g, fat_g and water_ml strictly positive.
C16_PositiveTargets ==
    (pc # "targets_input" /\ C16_Valid) => C16_Returned

\* C16 as amended: the same for every valid input whose weight, height and
\* age lie in the ranges the application accepts.
C16_PositiveTargetsInRange ==
    (pc # "targets_input" /\ C16_Valid /\ C16_InRange) => C16_Returned

\* the smallest target of the range: 30 kg, 130 cm, 80 years, cut
C16_Witness ==
    /\ C16_Valid
    /\ C16_InRange
    /\ C16_Returned
    /\ profile.goal = "cut"
    /\ profile.sex = "female"
    /\ profile.activity_level = "low"
    /\ sessions = <<>>
    /\ targets[1].kcal = 350

(***************************************************************************)
(* Properties of generate_hydration_reminders                              *)
(***************************************************************************)
HydrationDone == pc = "hydration_done"

\* C17: the reminders returned are in time order, any two consecutive ones
\* are at least 20 minutes apart, every reminder has ml >= 100 and all
\* reminders of one result carry the same ml.
C17_SpacingAndVolume ==
    HydrationDone =>
        /\ \A i \in DOMAIN reminders :
              /\ reminders[i].ml >= 100
              /\ reminders[i].ml = reminders[1].ml
        /\ \A i \in 1..(Len(reminders) - 1) :
              reminders[i + 1].time - reminders[i].time >= minutes(20)

\* a reminder linked to a session was dropped as too close to the one kept
\* before it, and the volume is not at the floor
C17_Witness ==
    /\ HydrationDone
    /\ interval_minutes = 120
    /\ Len(reminders) >= 4
    /\ reminders[1].ml > 100
    /\ \E i \in DOMAIN sessions :
          /\ sessions[i].session_type # "class"
          /\ \A j \in DOMAIN reminders :
                reminders[j].time # sessions[i].start - minutes(20)
          /\ \E j \in DOMAIN reminders :
                reminders[j].time = sessions[i].end + minutes(15)

\* the time t is the time of a returned reminder or lies less than 20
\* minutes after one
C20_Covered(t) ==
    \E j \in DOMAIN reminders :
        reminders[j].time <= t /\ t - reminders[j].time < minutes(20)

\* C20: for every non-class session, for any wake and bed, start-20m and
\* end+15m are each covered by a returned reminder; class sessions
\* contribute no session-linked reminder.
C20_SessionCoverage ==
    HydrationDone =>
        /\ \A i \in DOMAIN sessions :
              sessions[i].session_type # "class" =>
                  /\ C20_Covered(sessions[i].start - minutes(20))
                  /\ C20_Covered(sessions[i].end + minutes(15))
        /\ \A j \in DOMAIN reminders :
              reminders[j].label # <<"Drink water">> =>
                  \E i \in DOMAIN sessions :
                      /\ sessions[i].session_type # "class"
                      /\ reminders[j].label \in
                             {<<"Hydrate before ", sessions[i].label>>,
                              <<"Hydrate after ", sessions[i].label>>}

(***************************************************************************)
(* Properties of the per-run history                                       *)
(***************************************************************************)
\* the first slot of a call is about to be composed
C18_FirstSlot == pc = "compose" /\ idx = 1

\* C18: whatever calls came before, when the first slot of a call is
\* composed used_today and used_templates are empty and nothing of an
\* earlier call is left in the run: the slots are those of the arguments
\* and no meal or random choice is recorded, so that what the call can
\* produce is determined by its arguments.
C18_HistoryReset ==
    C18_FirstSlot =>
        /\ used_today = {}
        /\ used_templates = {}
        /\ meals = <<>>
        /\ draws = <<>>
        /\ slots = generate_slots(build_datetime(date, wake),
                                  build_datetime(date, bed), sessions,
                                  estimate_daily_targets(profile, sessions).kcal,
                                  day_type)

\* a later call starts after a call that chose a template and used foods
C18_Witness ==
    /\ C18_FirstSlot
    /\ used_templates = {}
    /\ \E i \in DOMAIN generated : "template" \in DOMAIN generated[i]
    /\ \E i \in DOMAIN generated : "template" \notin DOMAIN generated[i]
                                      /\ generated[i].items # <<>>

\* the template names added to used_templates before meal j was composed
C19_UsedBefore(j) ==
    {meals[i].template : i \in {k \in 1..(j - 1) : "template" \in DOMAIN meals[k]}}

\* C19: in a run without a swap directive, a meal carries a template name
\* already used by an earlier meal of the run only if every template
\* matching its purpose had been added to used_templates before.
C19_RepeatOnlyWhenExhausted ==
    (pc = "compose" /\ force_swap = <<>>) =>
        \A j \in DOMAIN meals :
            ("template" \in DOMAIN meals[j]
                /\ meals[j].template \in C19_UsedBefore(j))
            => \A t \in Range(matching(templates, meals[j].purpose)) :
                   t.name \in C19_UsedBefore(j)

\* lunch and dinner share two templates and got different ones
C19_Witness ==
    /\ pc = "compose"
    /\ force_swap = <<>>
    /\ \E i, j \in DOMAIN meals :
          /\ i < j
          /\ "template" \in DOMAIN meals[i]
          /\ "template" \in DOMAIN meals[j]
          /\ meals[i].template # meals[j].template
          /\ \E t \in Range(matching(templates, meals[j].purpose)) :
                 t.name = meals[i].template

\* the only template of the purpose was used twice
C19_WitnessRepeat ==
    /\ pc = "compose"
    /\ force_swap = <<>>
    /\ \E i, j \in DOMAIN meals :
          /\ i < j
          /\ "template" \in DOMAIN meals[i]
          /\ "template" \in DOMAIN meals[j]
          /\ meals[i].template = meals[j].template

(***************************************************************************)
(* Constraint safety of the plan                                           *)
(***************************************************************************)
\* the meals of the run in progress, which are those of the plan returned
\* once the last slot is composed
C21_Meals == Range(meals)

\* the catalog entries an item name refers to
C21_Named(n) == {i \in DOMAIN foods : foods[i].name = n}

\* C21: every item of every meal of a plan, composed from a template or
\* heuristically (the purpose filter's fall-back to the whole list included),
\* names a food of the catalog, and that food is lactose-free when the user
\* is lactose intolerant, carries none of the user's allergens and is not a
\* disliked food.
C21_ConstraintSafety ==
    \A m \in C21_Meals :
        \A j \in DOMAIN m.items :
            /\ C21_Named(m.items[j].name) # {}
            /\ \A i \in C21_Named(m.items[j].name) : C8_Satisfies(foods[i])
            /\ m.items[j].name \notin Range(constraints.disliked_foods)

\* meal m was composed by the heuristic path from the whole safe list: no
\* safe food carries a tag of its purpose
C21_FellBack(m) ==
    /\ "template" \notin DOMAIN m
    /\ m.items # <<>>
    /\ \A i \in DOMAIN foods :
          C8_Satisfies(foods[i]) =>
              Range(Get(foods[i], "tags", <<>>)) \cap needed_tags(m.purpose) = {}

\* a returned plan under constraints that exclude a food of the catalog, with
\* a meal from a template, and a heuristic meal composed after the purpose
\* filter fell back to the whole safe list although an excluded food carries
\* a tag of the purpose
C21_Witness ==
    /\ pc = "compose"
    /\ idx > Len(slots)
    /\ constraints.lactose_intolerant
    /\ constraints.disliked_foods # <<>>
    /\ \E i \in DOMAIN meals : "template" \in DOMAIN meals[i]
    /\ \E i \in DOMAIN meals :
          /\ C21_FellBack(meals[i])
          /\ \E k \in DOMAIN foods :
                /\ ~C8_Satisfies(foods[k])
                /\ Range(Get(foods[k], "tags", <<>>))
                      \cap needed_tags(meals[i].purpose) # {}

(***************************************************************************)
(* Collision avoidance and allocation in generate_slots                    *)
(***************************************************************************)
\* C22: in a returned schedule every pre-event slot and every post-workout
\* slot is at least 60 minutes away from every other slot, whatever its
\* purpose, for any number of fuel sessions in any order.
C22_CollisionAvoidance ==
    SlotsDone =>
        \A i, j \in DOMAIN slots :
            (i # j /\ slots[i].purpose \in {"pre-event", "post-workout"})
            => Abs(slots[i].time - slots[j].time) >= hours(1)

\* a candidate time of fuel session e that the schedule does not contain
C22_Dropped(e) ==
    \/ /\ e.end + minutes(30) <= bed - minutes(45)
       /\ e.end + minutes(30) \notin PurposeTimes(slots, {"post-workout"})
    \/ /\ e.start - minutes(90) >= wake + minutes(30)
       /\ e.start - minutes(90) \notin PurposeTimes(slots, {"pre-event"})

\* a schedule of two or more fuel sessions with pre-event, post-workout and
\* gap-snack slots, in which a candidate inside the margins was moved or
\* dropped and a session slot sits exactly 60 minutes from another slot
C22_Witness ==
    /\ SlotsDone
    /\ Len(fuel_sessions(sessions)) >= 2
    /\ CountPurpose(slots, "pre-event") >= 1
    /\ CountPurpose(slots, "post-workout") >= 1
    /\ CountPurpose(slots, "snack") >= 1
    /\ \E e \in Range(fuel_sessions(sessions)) : C22_Dropped(e)
    /\ \E i, j \in DOMAIN slots :
          /\ slots[i].purpose \in {"pre-event", "post-workout"}
          /\ Abs(slots[i].time - slots[j].time) = hours(1)

\* C23: whenever target_kcal > 0, every slot of a returned schedule has
\* kcal_target > 0, for every day_type and every purpose.
C23_PositiveAllocation ==
    (SlotsDone /\ target_kcal > 0) =>
        \A i \in DOMAIN slots : FLess(FZero, slots[i].kcal_target)

====
